---- MODULE Spec2Model ----
(***************************************************************************)
(* PacVolt Analysis (src/pva.py): the temporal normalisation and fault     *)
(* correlation engine.  Instants are whole seconds counted from the        *)
(* telemetry anchor; canonical SCET text is modelled by what strftime and  *)
(* strptime do with it (a text either denotes an instant or fails to       *)
(* parse).  Optional values (Python's None) are sequences: <<>> is None,   *)
(* <<t>> is the value t.                                                   *)
(***************************************************************************)
EXTENDS Integers, Sequences, FiniteSets, TLC

VARIABLES
    pc,                 \* position of the running call
    args,               \* arguments of a pure-function call (check_overlap)
    ret,                \* its return value
    fault_data,         \* list of fault rows (scet, name, value, unit)
    fault_clusters,     \* list of clusters {min_time, max_time, fault_count}
    logs,               \* the directory's .log files: name -> None (missing) or Some(rows)
    margin,             \* process_directory_mode's margin argument
    overlap_policy,     \* its overlap_policy argument
    exclude_policy,     \* its exclude_policy argument
    csv_files,          \* the directory's .csv files written by convert_log_to_csv
    debug_out,          \* the intermediate 24HR-out.csv / 24prev-out.csv files
    output_file,        \* the canonical output file: None while it does not exist
    temp_files,         \* the temporary files that exist
    temps_created,      \* how many temporary files the run has created
    fault_min,          \* fault range, after the margin once it is applied
    fault_max,
    overlapping_files,  \* the overlapping data files, in priority order
    overlapping_file,   \* ONLY_RECENT: the data file selected
    all_rows,           \* MergeAll: the rows collected so far
    covered_ranges,     \* MergeAll: the segments accepted so far
    file_idx,           \* MergeAll: index of the data file being processed
    raised,             \* an exception is propagating (through the finally block)
    result              \* "running", "True", "False" or "raised"

params == <<logs, margin, overlap_policy, exclude_policy>>
fsys == <<csv_files, debug_out, output_file, temp_files, temps_created>>
locals == <<fault_min, fault_max, overlapping_files, overlapping_file, fault_data, fault_clusters,
            all_rows, covered_ranges, file_idx, raised>>
vars == <<pc, args, ret, params, fsys, locals, result>>

(***************************************************************************)
(* Bounds of the model.                                                    *)
(***************************************************************************)
MaxOverlapTick == 3     \* check_overlap inputs: instants 0, 300, .. 300*MaxOverlapTick
MaxClusterTick == 5     \* clustering inputs: instants 0, 300, .. 300*MaxClusterTick
MaxFaults == 3          \* clustering inputs: at most this many fault rows

\* The sampling grid of the inputs: one instant every 300 seconds.
Grid(n) == {300 * k : k \in 0..n}

(***************************************************************************)
(* Optional values and canonical text.                                     *)
(***************************************************************************)
None == <<>>
Some(v) == <<v>>
Val(o) == o[1]

\* datetime.strftime('%Y-%jT%H:%M:%S') of a whole-second instant
Strftime(t) == [scet |-> t]
\* a text that '%Y-%jT%H:%M:%S' does not parse
BadText == [bad |-> TRUE]
\* datetime.strptime(text, '%Y-%jT%H:%M:%S'): None stands for ValueError
Strptime(text) == IF "scet" \in DOMAIN text THEN Some(text.scet) ELSE None

SeqsUpTo(S, n) == UNION {[1..k -> S] : k \in 0..n}

InSeq(x, s) == \E i \in 1..Len(s) : s[i] = x

\* a fault row of the output: (scet, 'Fault', value, 'none')
FaultTuple(text, v) == [scet |-> text, name |-> "Fault", value |-> v, unit |-> "none"]

\* a measurement row of the output: (scet, col_name, value, col_unit)
MeasurementTuple(text, v) == [scet |-> text, name |-> "AvgVin", value |-> v, unit |-> "U"]

(***************************************************************************)
(* check_overlap                                                           *)
(***************************************************************************)
RangesMeetStrict(range1_min, range1_max, range2_min, range2_max) ==
    range1_min < range2_max /\ range2_min < range1_max

RangesMeet(range1_min, range1_max, range2_min, range2_max) ==
    range1_min <= range2_max /\ range2_min <= range1_max

check_overlap(range1_min, range1_max, range2_min, range2_max) ==
    IF range1_min = None \/ range1_max = None \/ range2_min = None \/ range2_max = None
    THEN FALSE
    ELSE RangesMeet(Val(range1_min), Val(range1_max), Val(range2_min), Val(range2_max))

(***************************************************************************)
(* identify_fault_clusters                                                 *)
(***************************************************************************)
cluster_threshold_minutes == 10

\* timedelta(minutes=m) in seconds
Minutes(m) == 60 * m

NotSeenNever(dt, fault_timestamps) == TRUE

\* "if dt not in fault_timestamps"
NotSeen(dt, fault_timestamps) == ~InSeq(dt, fault_timestamps)

RECURSIVE DistinctTimestamps(_, _)
\* the loop collecting the distinct parsable timestamps, in input order
DistinctTimestamps(rows, fault_timestamps) ==
    IF rows = <<>> THEN fault_timestamps
    ELSE LET dt == Strptime(Head(rows).scet)
         IN  DistinctTimestamps(Tail(rows),
                 IF dt # None /\ NotSeen(Val(dt), fault_timestamps)
                 THEN Append(fault_timestamps, Val(dt))
                 ELSE fault_timestamps)

RECURSIVE InsertSorted(_, _)
InsertSorted(x, s) ==
    IF s = <<>> THEN <<x>>
    ELSE IF x < Head(s) THEN <<x>> \o s
    ELSE <<Head(s)>> \o InsertSorted(x, Tail(s))

RECURSIVE SortTimes(_)
\* list.sort() on datetimes
SortTimes(s) == IF s = <<>> THEN <<>> ELSE InsertSorted(s[Len(s)], SortTimes(SubSeq(s, 1, Len(s) - 1)))

SortedTimestampsUnsorted(rows) == DistinctTimestamps(rows, <<>>)

\* fault_timestamps after "fault_timestamps.sort()"
SortedTimestamps(rows) == SortTimes(DistinctTimestamps(rows, <<>>))

JoinsClusterStrict(time_gap, threshold) == time_gap < threshold

\* "if time_gap <= threshold"
JoinsCluster(time_gap, threshold) == time_gap <= threshold

Cluster(start, end, count) == [min_time |-> start, max_time |-> end, fault_count |-> count]

RECURSIVE ClusterWalk(_, _, _, _, _, _, _)
\* the loop "for i in range(1, len(fault_timestamps))" and the final append
ClusterWalk(ts, i, clusters, current_cluster_start, current_cluster_end, fault_count, threshold) ==
    IF i > Len(ts)
    THEN Append(clusters, Cluster(current_cluster_start, current_cluster_end, fault_count))
    ELSE IF JoinsCluster(ts[i] - ts[i - 1], threshold)
    THEN ClusterWalk(ts, i + 1, clusters, current_cluster_start, ts[i], fault_count + 1, threshold)
    ELSE ClusterWalk(ts, i + 1,
             Append(clusters, Cluster(current_cluster_start, current_cluster_end, fault_count)),
             ts[i], ts[i], 1, threshold)

identify_fault_clusters(rows) ==
    IF rows = <<>> THEN <<>>
    ELSE LET ts == SortedTimestamps(rows)
         IN  IF ts = <<>> THEN <<>>
             ELSE ClusterWalk(ts, 2, <<>>, ts[1], ts[1], 1, Minutes(cluster_threshold_minutes))

(***************************************************************************)
(* Specification SpecOverlap: check_overlap applied to every combination   *)
(* of defined and undefined bounds.                                        *)
(***************************************************************************)
OptTimes(n) == {None} \cup {Some(t) : t \in Grid(n)}

InitOverlap ==
    /\ pc = "overlap_call"
    /\ args \in [a_min : OptTimes(MaxOverlapTick), a_max : OptTimes(MaxOverlapTick),
                 b_min : OptTimes(MaxOverlapTick), b_max : OptTimes(MaxOverlapTick)]
    /\ ret = None
    /\ fault_data = <<>>
    /\ fault_clusters = <<>>
    /\ logs = None /\ margin = None /\ overlap_policy = None /\ exclude_policy = None
    /\ csv_files = None /\ debug_out = None /\ output_file = None
    /\ temp_files = {} /\ temps_created = 0
    /\ fault_min = None /\ fault_max = None /\ overlapping_files = <<>>
    /\ overlapping_file = "none"
    /\ all_rows = <<>> /\ covered_ranges = <<>> /\ file_idx = 0
    /\ raised = FALSE /\ result = "running"

CheckOverlap ==
    /\ pc = "overlap_call"
    /\ ret' = Some(check_overlap(args.a_min, args.a_max, args.b_min, args.b_max))
    /\ pc' = "overlap_done"
    /\ UNCHANGED <<args, params, fsys, locals, result>>

NextOverlap == CheckOverlap

SpecOverlap == InitOverlap /\ [][NextOverlap]_vars

(***************************************************************************)
(* Specification SpecCluster: identify_fault_clusters applied to every     *)
(* list of fault rows, in any order, with repeated and unparsable          *)
(* timestamps.                                                             *)
(***************************************************************************)


ClusterScets == {Strftime(t) : t \in Grid(MaxClusterTick)} \cup {BadText}

InitCluster ==
    /\ pc = "cluster_call"
    /\ \E texts \in SeqsUpTo(ClusterScets, MaxFaults) :
           fault_data = [i \in 1..Len(texts) |-> FaultTuple(texts[i], <<"FaultLog", i>>)]
    /\ fault_clusters = <<>>
    /\ args = None
    /\ ret = None
    /\ logs = None /\ margin = None /\ overlap_policy = None /\ exclude_policy = None
    /\ csv_files = None /\ debug_out = None /\ output_file = None
    /\ temp_files = {} /\ temps_created = 0
    /\ fault_min = None /\ fault_max = None /\ overlapping_files = <<>>
    /\ overlapping_file = "none"
    /\ all_rows = <<>> /\ covered_ranges = <<>> /\ file_idx = 0
    /\ raised = FALSE /\ result = "running"

IdentifyFaultClusters ==
    /\ pc = "cluster_call"
    /\ fault_clusters' = identify_fault_clusters(fault_data)
    /\ pc' = "cluster_done"
    /\ UNCHANGED <<args, ret, params, fsys, result>>
    /\ UNCHANGED <<fault_min, fault_max, overlapping_files, overlapping_file, fault_data,
                   all_rows, covered_ranges, file_idx, raised>>

NextCluster == IdentifyFaultClusters

SpecCluster == InitCluster /\ [][NextCluster]_vars

(***************************************************************************)
(* Input files.  A telemetry file is its anchor (the instant its metadata  *)
(* line gives) and the time-offset field of each data row; its header is   *)
(* RecNr,AvgVin(U),Time and every data row has the header's width.  A      *)
(* fault file is the date and time fields of each row after its three      *)
(* header lines.  The opaque value of a cell is the pair <<file, row>>.    *)
(***************************************************************************)
Names == {"24HR", "24prev", "FaultLog", "Month"}

\* data_files, in priority order
data_files == <<"24HR", "24prev", "Month">>

\* the text "HH:MM:SS" of an offset of o seconds
OffsetText(o) == [off |-> o]
\* a time-offset field that the split on ':' or int() rejects
BadOffset == [bad |-> TRUE]

\* a data row with more fields than the header: its field at the index of the
\* header's Time column and its last field.  Any other data row is written as
\* its time field, which is both.
LongRow(time, last) == [time |-> time, last |-> last]

\* "time_value = row[time_col_idx]" of convert_csv, time_col_idx = len(headers) - 1
TimeField(row) == IF "last" \in DOMAIN row THEN row.time ELSE row

\* "time_value = row[-1].strip()" of get_time_range_from_csv
LastField(row) == IF "last" \in DOMAIN row THEN row.last ELSE row

\* None stands for the ValueError or IndexError the function raises
parse_time_offset_to_scet(time_str, base_date) ==
    IF "off" \in DOMAIN time_str THEN Some(Strftime(base_date + time_str.off)) ELSE None

\* a fault row whose date field is an ordinal date "YYYY-DDD", with its time field
OrdinalRow(t) == [fmt |-> "ordinal", t |-> t]
\* a fault row whose date field is the combined text "YYYY-DDDTHH:MM:SS"
CombinedRow(t) == [fmt |-> "combined", t |-> t]
\* a fault row whose date and time fields fail every decoding attempt
BadRow == [fmt |-> "bad", t |-> 0]

\* a fault row whose date field is three numbers joined by '/', with its time
\* field: a field is a number below 100 (one or two digits) or a four-digit one
SlashRow(date, clock) == [fmt |-> "slash", t |-> 0, date |-> date, clock |-> clock]

\* the time field "HH:MM:SS"
ClockText(h, m, sec) == [h |-> h, m |-> m, sec |-> sec]
\* a time field that split(':') and int() reject
BadClock == [bad |-> TRUE]

IsLeap(y) == (y % 4 = 0 /\ y % 100 # 0) \/ y % 400 = 0

DaysIn(m, y) == IF m \in {4, 6, 9, 11} THEN 30 ELSE IF m = 2 THEN (IF IsLeap(y) THEN 29 ELSE 28)
                ELSE 31

\* %Y takes four digits, %m one or two digits from 1 to 12, %d one or two
\* digits from 1 to the length of the month
ValidDate(y, m, d) == y \in 1000..9999 /\ m \in 1..12 /\ d \in 1..DaysIn(m, y)

\* datetime.strptime(date_part, '%m/%d/%Y'): None stands for ValueError
StrptimeMDY(date) ==
    IF ValidDate(date[3], date[1], date[2]) THEN Some(<<date[3], date[1], date[2]>>) ELSE None

\* datetime.strptime(date_part, '%d/%m/%Y')
StrptimeDMY(date) ==
    IF ValidDate(date[3], date[2], date[1]) THEN Some(<<date[3], date[2], date[1]>>) ELSE None

\* datetime.strptime(date_part, '%Y/%m/%d')
StrptimeYMD(date) ==
    IF ValidDate(date[1], date[2], date[3]) THEN Some(<<date[1], date[2], date[3]>>) ELSE None

RECURSIVE DaysBeforeMonth(_, _)
DaysBeforeMonth(m, y) == IF m = 1 THEN 0 ELSE DaysIn(m - 1, y) + DaysBeforeMonth(m - 1, y)

\* dt.replace(hour=, minute=, second=): None for a time field that does not
\* split into integers or is out of range; the instant is in seconds from
\* 2025-001T00:00:00 (the dates of the inputs are all of the year 2025)
ReplaceTime(ymd, clock) ==
    IF "bad" \in DOMAIN clock \/ clock.h > 23 \/ clock.m > 59 \/ clock.sec > 59 THEN None
    ELSE Some(86400 * (365 * (ymd[1] - 2025) + DaysBeforeMonth(ymd[2], ymd[1]) + ymd[3] - 1)
              + 3600 * clock.h + 60 * clock.m + clock.sec)

\* the three nested try blocks of parse_fault_data
ParserSlashDate(date) ==
    IF StrptimeMDY(date) # None THEN StrptimeMDY(date)
    ELSE IF StrptimeDMY(date) # None THEN StrptimeDMY(date)
    ELSE StrptimeYMD(date)

ScannerSlashDateDayFirst(date) ==
    IF StrptimeDMY(date) # None THEN StrptimeDMY(date)
    ELSE IF StrptimeMDY(date) # None THEN StrptimeMDY(date)
    ELSE StrptimeYMD(date)

\* the three nested try blocks of get_time_range_from_csv
ScannerSlashDate(date) ==
    IF StrptimeMDY(date) # None THEN StrptimeMDY(date)
    ELSE IF StrptimeDMY(date) # None THEN StrptimeDMY(date)
    ELSE StrptimeYMD(date)

\* parse_fault_data's decoding of a row's date and time fields: the branch
\* "'T' in date_part" reads the combined text, the next one the ordinal date,
\* the next one a date with '/'
FaultRowInstant(row) ==
    IF row.fmt = "combined" THEN Some(row.t)
    ELSE IF row.fmt = "ordinal" THEN Some(row.t)
    ELSE IF row.fmt = "slash"
    THEN (IF ParserSlashDate(row.date) = None THEN None
          ELSE ReplaceTime(Val(ParserSlashDate(row.date)), row.clock))
    ELSE None

\* get_time_range_from_csv's decoding of the same fields: it has no branch for
\* the combined text, which its ordinal branch joins with the time field and
\* then fails to parse
ScanFaultRowInstant(row) ==
    IF row.fmt = "ordinal" THEN Some(row.t)
    ELSE IF row.fmt = "slash"
    THEN (IF ScannerSlashDate(row.date) = None THEN None
          ELSE ReplaceTime(Val(ScannerSlashDate(row.date)), row.clock))
    ELSE None

\* get_time_range_from_csv's decoding of a data row: exceptions are caught
ScanDataRowInstant(time_str, base_date) ==
    LET dt_str == parse_time_offset_to_scet(time_str, base_date)
    IN  IF dt_str = None THEN None ELSE Strptime(Val(dt_str))

RECURSIVE ScanRows(_, _, _, _, _)
\* the loop "for row in reader" of get_time_range_from_csv
ScanRows(file, is_fault_file, i, min_dt, max_dt) ==
    LET rows == IF is_fault_file THEN file ELSE file.rows
    IN  IF i > Len(rows) THEN <<min_dt, max_dt>>
        ELSE LET dt == IF is_fault_file THEN ScanFaultRowInstant(rows[i])
                       ELSE ScanDataRowInstant(LastField(rows[i]), file.anchor)
             IN  IF dt = None THEN ScanRows(file, is_fault_file, i + 1, min_dt, max_dt)
                 ELSE ScanRows(file, is_fault_file, i + 1,
                          IF min_dt = None \/ Val(dt) < Val(min_dt) THEN dt ELSE min_dt,
                          IF max_dt = None \/ Val(dt) > Val(max_dt) THEN dt ELSE max_dt)

\* csv_file is None when the file does not exist (FileNotFoundError)
get_time_range_from_csv(csv_file, is_fault_file) ==
    IF csv_file = None THEN <<None, None>>
    ELSE ScanRows(Val(csv_file), is_fault_file, 1, None, None)

\* "if min_time: min_datetime = datetime.strptime(min_time, ...)"
Bound(time_text) == IF time_text = None THEN None ELSE Strptime(Val(time_text))

InTimeFilterExclusive(scet_datetime, min_datetime, max_datetime) ==
    /\ ~(min_datetime # None /\ scet_datetime <= Val(min_datetime))
    /\ ~(max_datetime # None /\ scet_datetime >= Val(max_datetime))

\* the two "continue" tests of the time filter; inclusive at both ends
InTimeFilter(scet_datetime, min_datetime, max_datetime) ==
    /\ ~(min_datetime # None /\ scet_datetime < Val(min_datetime))
    /\ ~(max_datetime # None /\ scet_datetime > Val(max_datetime))

RECURSIVE ParseFaultRows(_, _, _, _)
\* the loop "for row in reader" of parse_fault_data
ParseFaultRows(rows, i, min_datetime, max_datetime) ==
    IF i > Len(rows) THEN <<>>
    ELSE LET scet_datetime == FaultRowInstant(rows[i])
         IN  (IF scet_datetime # None /\ InTimeFilter(Val(scet_datetime), min_datetime, max_datetime)
              THEN <<FaultTuple(Strftime(Val(scet_datetime)), <<"FaultLog", i>>)>>
              ELSE <<>>)
             \o ParseFaultRows(rows, i + 1, min_datetime, max_datetime)

parse_fault_data(fault_file, min_time, max_time) ==
    ParseFaultRows(fault_file, 1, Bound(min_time), Bound(max_time))

RECURSIVE ConvertRows(_, _, _, _, _)
\* the loop "for row in reader" of convert_csv: None when parse_time_offset_to_scet
\* raises (nothing catches it), else Some(rows collected)
ConvertRows(src, file, i, min_datetime, max_datetime) ==
    IF i > Len(file.rows) THEN Some(<<>>)
    ELSE LET scet_timestamp == parse_time_offset_to_scet(TimeField(file.rows[i]), file.anchor)
         IN  IF scet_timestamp = None THEN None
             ELSE LET rest == ConvertRows(src, file, i + 1, min_datetime, max_datetime)
                  IN  IF rest = None THEN None
                      ELSE Some((IF InTimeFilter(Val(Strptime(Val(scet_timestamp))),
                                                 min_datetime, max_datetime)
                                 THEN <<MeasurementTuple(Val(scet_timestamp), <<src, i>>)>>
                                 ELSE <<>>) \o Val(rest))

SortKey(row) == Val(Strptime(row.scet))

RECURSIVE InsertBeforeEqual(_, _)
\* an insertion that puts a row in front of the rows of its own timestamp
InsertBeforeEqual(x, s) ==
    IF s = <<>> THEN <<x>>
    ELSE IF SortKey(x) <= SortKey(Head(s)) THEN <<x>> \o s
    ELSE <<Head(s)>> \o InsertBeforeEqual(x, Tail(s))

RECURSIVE InsertStable(_, _)
InsertStable(x, s) ==
    IF s = <<>> THEN <<x>>
    ELSE IF SortKey(x) < SortKey(Head(s)) THEN <<x>> \o s
    ELSE <<Head(s)>> \o InsertStable(x, Tail(s))

SortRowsKeepingOrder(s) == s

RECURSIVE SortRows(_)
\* all_rows.sort(key=timestamp): a stable sort
SortRows(s) ==
    IF s = <<>> THEN <<>> ELSE InsertStable(s[Len(s)], SortRows(SubSeq(s, 1, Len(s) - 1)))

convert_csv_without_faults(src, input_file, min_time, max_time, fault_file) ==
    LET data == ConvertRows(src, input_file, 1, Bound(min_time), Bound(max_time))
    IN  IF data = None THEN None ELSE Some(SortRows(Val(data)))

\* convert_csv: None when it raises (the output file is then not written), else
\* Some(the rows it writes to output_file after the header)
convert_csv(src, input_file, min_time, max_time, fault_file) ==
    LET faults == IF fault_file = None THEN <<>>
                  ELSE parse_fault_data(Val(fault_file), min_time, max_time)
        data == ConvertRows(src, input_file, 1, Bound(min_time), Bound(max_time))
    IN  IF data = None THEN None ELSE Some(SortRows(faults \o Val(data)))

\* a margin string: its text before the last character read by int() (None when
\* int() rejects it) and its last character
MarginText(n, suffix) == [num |-> Some(n), suffix |-> suffix]

parse_margin_unitless(margin_str) ==
    IF margin_str = None THEN Some(0)
    ELSE IF Val(margin_str).suffix \in {"s", "m"} THEN Val(margin_str).num
    ELSE None

\* parse_margin, in seconds: None stands for the ValueError it raises
parse_margin(margin_str) ==
    IF margin_str = None THEN Some(0)
    ELSE IF Val(margin_str).suffix = "s" THEN Val(margin_str).num
    ELSE IF Val(margin_str).suffix = "m"
    THEN IF Val(margin_str).num = None THEN None ELSE Some(60 * Val(Val(margin_str).num))
    ELSE None

\* "if margin_delta:" is false for None and for a zero timedelta
ClusterRange(cluster, margin_delta) ==
    IF margin_delta # None /\ Val(margin_delta) # 0
    THEN <<cluster.min_time - Val(margin_delta), cluster.max_time + Val(margin_delta)>>
    ELSE <<cluster.min_time, cluster.max_time>>

RowInRanges(row, clusters, margin_delta) ==
    LET row_time == Strptime(row.scet)
    IN  \/ row_time = None
        \/ \E k \in 1..Len(clusters) :
               /\ ClusterRange(clusters[k], margin_delta)[1] <= Val(row_time)
               /\ Val(row_time) <= ClusterRange(clusters[k], margin_delta)[2]

filter_data_by_clusters(rows, clusters, margin_delta) ==
    IF clusters = <<>> THEN rows
    ELSE SelectSeq(rows, LAMBDA row : RowInRanges(row, clusters, margin_delta))

(***************************************************************************)
(* process_directory_mode, one action per stage and per way out of it.     *)
(***************************************************************************)
MaxTick == 1            \* run inputs: instants 0, 300, .. 300*MaxTick
MaxRows == 3            \* run inputs: at most this many data rows in the directory
MaxFaultRows == 2       \* run inputs: at most this many rows in the fault log

TimeFields == {OffsetText(o) : o \in Grid(MaxTick)} \cup {BadOffset}

\* None: the file is missing
TeleFiles == {None} \cup {Some([anchor |-> 0, rows |-> r]) : r \in SeqsUpTo(TimeFields, MaxRows)}

FaultRows == {OrdinalRow(t) : t \in Grid(MaxTick)} \cup {CombinedRow(300), BadRow}

\* an argument the call has not consulted yet: the arguments are drawn where
\* process_directory_mode first reads them
Unread == "unread"
UnreadMargin == Some([unread |-> TRUE])

FaultFiles == {None} \cup {Some(r) : r \in SeqsUpTo(FaultRows, MaxFaultRows)}

Margins == {None, Some(MarginText(5, "m")), Some(MarginText(-5, "m")), Some(MarginText(5, "h"))}

RowCount(f) == IF f = None THEN 0 ELSE Len(Val(f).rows)

Init ==
    /\ pc = "start"
    /\ \E f1, f2, f3 \in TeleFiles, ff \in FaultFiles :
           /\ RowCount(f1) + RowCount(f2) + RowCount(f3) <= MaxRows
           /\ logs = [n \in Names |-> IF n = "24HR" THEN f1 ELSE IF n = "24prev" THEN f2
                                      ELSE IF n = "Month" THEN f3 ELSE ff]
    /\ margin = UnreadMargin
    /\ overlap_policy = Unread
    /\ exclude_policy = Unread
    /\ csv_files = [n \in Names |-> None]
    /\ debug_out = [n \in {"24HR", "24prev"} |-> None]
    /\ output_file = None
    /\ temp_files = {} /\ temps_created = 0
    /\ fault_min = None /\ fault_max = None /\ overlapping_files = <<>>
    /\ overlapping_file = "none"
    /\ fault_data = <<>> /\ fault_clusters = <<>>
    /\ all_rows = <<>> /\ covered_ranges = <<>> /\ file_idx = 0
    /\ raised = FALSE /\ result = "running"
    /\ args = None /\ ret = None

Return(value) == pc' = "done" /\ result' = value

\* the loop over log_files: convert_log_to_csv copies each existing .log to .csv
ConvertLogs ==
    /\ pc = "start"
    /\ csv_files' = logs
    /\ pc' = "intermediate"
    /\ UNCHANGED <<args, ret, params, debug_out, output_file, temp_files, temps_created,
                   locals, result>>

\* the debugging outputs 24HR-out.csv and 24prev-out.csv; an exception of
\* convert_csv is caught and leaves the file unwritten
IntermediateOutputs ==
    /\ pc = "intermediate"
    /\ debug_out' = [n \in {"24HR", "24prev"} |->
                        IF csv_files[n] = None THEN None
                        ELSE convert_csv(n, Val(csv_files[n]), None, None, None)]
    /\ pc' = "fault_range"
    /\ UNCHANGED <<args, ret, params, csv_files, output_file, temp_files, temps_created,
                   locals, result>>

\* "FaultLog.csv not found after conversion"
FaultLogMissing ==
    /\ pc = "fault_range"
    /\ csv_files["FaultLog"] = None
    /\ Return("False")
    /\ UNCHANGED <<args, ret, params, fsys, locals>>

\* "Could not determine time range from FaultLog.csv"
FaultRangeUndefined ==
    /\ pc = "fault_range"
    /\ csv_files["FaultLog"] # None
    /\ LET r == get_time_range_from_csv(csv_files["FaultLog"], TRUE)
       IN  r[1] = None \/ r[2] = None
    /\ Return("False")
    /\ UNCHANGED <<args, ret, params, fsys, locals>>

FaultRangeFound ==
    /\ pc = "fault_range"
    /\ csv_files["FaultLog"] # None
    /\ LET r == get_time_range_from_csv(csv_files["FaultLog"], TRUE)
       IN  /\ r[1] # None /\ r[2] # None
           /\ fault_min' = r[1]
           /\ fault_max' = r[2]
    /\ pc' = "margin"
    /\ UNCHANGED <<args, ret, params, fsys, overlapping_files, overlapping_file, fault_data,
                   fault_clusters,
                   all_rows, covered_ranges, file_idx, raised, result>>

\* "if margin:" is false
NoMargin ==
    /\ pc = "margin"
    /\ margin' = None
    /\ pc' = "overlap"
    /\ UNCHANGED <<args, ret, logs, overlap_policy, exclude_policy, fsys, locals, result>>

\* parse_margin raises ValueError
MarginInvalid ==
    /\ pc = "margin"
    /\ \E m \in Margins :
           /\ m # None
           /\ parse_margin(m) = None
           /\ margin' = m
    /\ Return("False")
    /\ UNCHANGED <<args, ret, logs, overlap_policy, exclude_policy, fsys, locals>>

MarginApplied ==
    /\ pc = "margin"
    /\ \E m \in Margins :
           /\ m # None
           /\ parse_margin(m) # None
           /\ margin' = m
           /\ fault_min' = Some(Val(fault_min) - Val(parse_margin(m)))
           /\ fault_max' = Some(Val(fault_max) + Val(parse_margin(m)))
    /\ pc' = "overlap"
    /\ UNCHANGED <<args, ret, logs, overlap_policy, exclude_policy, fsys, overlapping_files,
                   overlapping_file, fault_data, fault_clusters,
                   all_rows, covered_ranges, file_idx, raised, result>>

OverlapsWithoutTest(name) ==
    /\ csv_files[name] # None
    /\ LET r == get_time_range_from_csv(csv_files[name], FALSE)
       IN  r[1] # None /\ r[2] # None

\* one pass of the loop "for data_file in data_files": does the file count as
\* overlapping
Overlaps(name) ==
    /\ csv_files[name] # None
    /\ LET r == get_time_range_from_csv(csv_files[name], FALSE)
       IN  /\ r[1] # None /\ r[2] # None
           /\ check_overlap(fault_min, fault_max, r[1], r[2])

\* overlapping_files after the loop
OverlappingFiles == SelectSeq(data_files, Overlaps)

\* "No data files overlap with FaultLog.csv time range"
NoOverlap ==
    /\ pc = "overlap"
    /\ OverlappingFiles = <<>>
    /\ Return("False")
    /\ UNCHANGED <<args, ret, params, fsys, locals>>

OverlapFound ==
    /\ pc = "overlap"
    /\ OverlappingFiles # <<>>
    /\ overlapping_files' = OverlappingFiles
    /\ pc' = "policy"
    /\ UNCHANGED <<args, ret, params, fsys, fault_min, fault_max, overlapping_file, fault_data,
                   fault_clusters,
                   all_rows, covered_ranges, file_idx, raised, result>>

\* fault_min.strftime(...) / fault_max.strftime(...)
FaultMinText == Some(Strftime(Val(fault_min)))
FaultMaxText == Some(Strftime(Val(fault_max)))

SelectedFileLast == overlapping_files[Len(overlapping_files)]

\* overlap_policy == 'ONLY_RECENT': the selected file
SelectedFile == overlapping_files[1]

\* the fault rows both branches parse before they transform any data file
ParsedFaults == parse_fault_data(Val(csv_files["FaultLog"]), FaultMinText, FaultMaxText)

\* ONLY_RECENT: convert_csv on the selected file raises and the exception
\* leaves process_directory_mode
SelectSingleRaises ==
    /\ pc = "policy"
    /\ overlap_policy' = "ONLY_RECENT"
    /\ convert_csv(SelectedFile, Val(csv_files[SelectedFile]), FaultMinText, FaultMaxText,
                   csv_files["FaultLog"]) = None
    /\ overlapping_file' = SelectedFile
    /\ fault_data' = ParsedFaults
    /\ fault_clusters' = identify_fault_clusters(ParsedFaults)
    /\ Return("raised")
    /\ UNCHANGED <<args, ret, logs, margin, exclude_policy, fsys, fault_min, fault_max,
                   overlapping_files,
                   all_rows, covered_ranges, file_idx, raised>>

\* ONLY_RECENT: the fault clusters are identified and convert_csv writes the
\* output from the selected file and the fault log
SelectSingle ==
    /\ pc = "policy"
    /\ overlap_policy' = "ONLY_RECENT"
    /\ LET out == convert_csv(SelectedFile, Val(csv_files[SelectedFile]), FaultMinText,
                              FaultMaxText, csv_files["FaultLog"])
       IN  /\ out # None
           /\ output_file' = out
    /\ overlapping_file' = SelectedFile
    /\ fault_data' = ParsedFaults
    /\ fault_clusters' = identify_fault_clusters(ParsedFaults)
    /\ pc' = "select_exclude"
    /\ UNCHANGED <<args, ret, logs, margin, exclude_policy, csv_files, debug_out, temp_files,
                   temps_created,
                   fault_min, fault_max, overlapping_files, all_rows, covered_ranges,
                   file_idx, raised, result>>

\* "margin_delta = parse_margin(margin)" of the exclusion step
ExclusionMargin == IF margin = None THEN None ELSE parse_margin(margin)

\* ONLY_RECENT: the exclusion step does not apply
SelectKeepAll ==
    /\ pc = "select_exclude"
    /\ \E e \in {"NONE", "ALL"} :
           /\ ~(e = "ALL" /\ fault_clusters # <<>>)
           /\ exclude_policy' = e
    /\ Return("True")
    /\ UNCHANGED <<args, ret, logs, margin, overlap_policy, fsys, locals>>

\* ONLY_RECENT: the output file is read back, filtered and rewritten
SelectExclude ==
    /\ pc = "select_exclude"
    /\ exclude_policy' = "ALL"
    /\ fault_clusters # <<>>
    /\ output_file' = Some(filter_data_by_clusters(Val(output_file), fault_clusters,
                                                   ExclusionMargin))
    /\ Return("True")
    /\ UNCHANGED <<args, ret, logs, margin, overlap_policy, csv_files, debug_out, temp_files,
                   temps_created, locals>>

\* overlap_policy == 'ALL': the fault rows start all_rows
MergeStart ==
    /\ pc = "policy"
    /\ overlap_policy' = "ALL"
    /\ fault_data' = ParsedFaults
    /\ fault_clusters' = identify_fault_clusters(ParsedFaults)
    /\ all_rows' = ParsedFaults
    /\ covered_ranges' = <<>>
    /\ file_idx' = 1
    /\ pc' = "merge_loop"
    /\ UNCHANGED <<args, ret, logs, margin, exclude_policy, fsys, fault_min, fault_max,
                   overlapping_files, overlapping_file,
                   raised, result>>

Max(a, b) == IF a >= b THEN a ELSE b
Min(a, b) == IF a <= b THEN a ELSE b

\* the intersection of the file's range with the fault range
Segment(name) ==
    LET r == get_time_range_from_csv(csv_files[name], FALSE)
    IN  <<Max(Val(fault_min), Val(r[1])), Min(Val(fault_max), Val(r[2]))>>

CoveredByStrictly(segment, cov) == segment[1] > cov[1] /\ segment[2] < cov[2]

\* "segment_min >= cov_min and segment_max <= cov_max"
CoveredBy(segment, cov) == segment[1] >= cov[1] /\ segment[2] <= cov[2]

IsFullyCovered(segment, covered) == \E k \in 1..Len(covered) : CoveredBy(segment, covered[k])

\* the segment is fully covered: "continue"
MergeSkip ==
    /\ pc = "merge_loop"
    /\ file_idx <= Len(overlapping_files)
    /\ IsFullyCovered(Segment(overlapping_files[file_idx]), covered_ranges)
    /\ file_idx' = file_idx + 1
    /\ UNCHANGED <<pc, args, ret, params, fsys, fault_min, fault_max, overlapping_files,
                   overlapping_file,
                   fault_data, fault_clusters, all_rows, covered_ranges, raised, result>>

\* tempfile.NamedTemporaryFile(delete=False) and temp_file.close()
MergeCreateTemp ==
    /\ pc = "merge_loop"
    /\ file_idx <= Len(overlapping_files)
    /\ ~IsFullyCovered(Segment(overlapping_files[file_idx]), covered_ranges)
    /\ temps_created' = temps_created + 1
    /\ temp_files' = temp_files \cup {temps_created + 1}
    /\ pc' = "merge_try"
    /\ UNCHANGED <<args, ret, params, csv_files, debug_out, output_file, locals, result>>

\* convert_csv of the file restricted to its segment, into the temporary file
MergeConverted ==
    LET name == overlapping_files[file_idx]
    IN  convert_csv(name, Val(csv_files[name]), Some(Strftime(Segment(name)[1])),
                    Some(Strftime(Segment(name)[2])), None)

\* all_rows.extend(...) replaced by an extension that leaves out timestamps already present
MergeConvertDeduplicating ==
    /\ pc = "merge_try"
    /\ MergeConverted # None
    /\ all_rows' = all_rows \o SelectSeq(Val(MergeConverted),
                        LAMBDA r : ~\E k \in 1..Len(all_rows) : all_rows[k].scet = r.scet)
    /\ covered_ranges' = Append(covered_ranges, Segment(overlapping_files[file_idx]))
    /\ pc' = "merge_finally"
    /\ UNCHANGED <<args, ret, params, fsys, fault_min, fault_max, overlapping_files,
                   overlapping_file,
                   fault_data, fault_clusters, file_idx, raised, result>>

\* the try block completes: the temporary file is read back into all_rows and
\* the segment recorded as covered
MergeConvert ==
    /\ pc = "merge_try"
    /\ MergeConverted # None
    /\ all_rows' = all_rows \o Val(MergeConverted)
    /\ covered_ranges' = Append(covered_ranges, Segment(overlapping_files[file_idx]))
    /\ pc' = "merge_finally"
    /\ UNCHANGED <<args, ret, params, fsys, fault_min, fault_max, overlapping_files,
                   overlapping_file,
                   fault_data, fault_clusters, file_idx, raised, result>>

\* convert_csv raises inside the try block
MergeConvertRaises ==
    /\ pc = "merge_try"
    /\ MergeConverted = None
    /\ raised' = TRUE
    /\ pc' = "merge_finally"
    /\ UNCHANGED <<args, ret, params, fsys, fault_min, fault_max, overlapping_files,
                   overlapping_file,
                   fault_data, fault_clusters, all_rows, covered_ranges, file_idx, result>>

\* "finally: Path(temp_path).unlink()", then the next file
MergeUnlink ==
    /\ pc = "merge_finally"
    /\ ~raised
    /\ temp_files' = temp_files \ {temps_created}
    /\ file_idx' = file_idx + 1
    /\ pc' = "merge_loop"
    /\ UNCHANGED <<args, ret, params, csv_files, debug_out, output_file, temps_created,
                   fault_min, fault_max, overlapping_files, overlapping_file, fault_data, fault_clusters,
                   all_rows, covered_ranges, raised, result>>

MergeRaiseWithoutUnlink ==
    /\ pc = "merge_finally"
    /\ raised
    /\ Return("raised")
    /\ UNCHANGED <<args, ret, params, fsys, locals>>

\* "finally: Path(temp_path).unlink()", then the exception leaves the function
MergeUnlinkRaise ==
    /\ pc = "merge_finally"
    /\ raised
    /\ temp_files' = temp_files \ {temps_created}
    /\ Return("raised")
    /\ UNCHANGED <<args, ret, params, csv_files, debug_out, output_file, temps_created, locals>>

\* after the loop: exclusion, sort, write
MergeFinish ==
    /\ pc = "merge_loop"
    /\ file_idx > Len(overlapping_files)
    /\ \E e \in {"NONE", "ALL"} :
           LET kept == IF e = "ALL" /\ fault_clusters # <<>>
                       THEN filter_data_by_clusters(all_rows, fault_clusters, ExclusionMargin)
                       ELSE all_rows
           IN  /\ exclude_policy' = e
               /\ all_rows' = SortRows(kept)
               /\ output_file' = Some(SortRows(kept))
    /\ Return("True")
    /\ UNCHANGED <<args, ret, logs, margin, overlap_policy, csv_files, debug_out, temp_files,
                   temps_created,
                   fault_min, fault_max, overlapping_files, overlapping_file, fault_data, fault_clusters,
                   covered_ranges, file_idx, raised>>

Next ==
    \/ ConvertLogs \/ IntermediateOutputs
    \/ FaultLogMissing \/ FaultRangeUndefined \/ FaultRangeFound
    \/ NoMargin \/ MarginInvalid \/ MarginApplied
    \/ NoOverlap \/ OverlapFound
    \/ SelectSingleRaises \/ SelectSingle \/ SelectKeepAll \/ SelectExclude
    \/ MergeStart \/ MergeSkip \/ MergeCreateTemp \/ MergeConvert \/ MergeConvertRaises
    \/ MergeUnlink \/ MergeUnlinkRaise \/ MergeFinish

Spec == Init /\ [][Next]_vars

(***************************************************************************)
(* Specification SpecGap: process_directory_mode on a directory whose      *)
(* instants leave a gap longer than the cluster threshold, so that the     *)
(* fault log can hold several clusters and data rows can lie between them. *)
(***************************************************************************)
GapTick == 4            \* gap inputs: instants 0, 300 and 300*GapTick

GapInstants == {0, 300, 300 * GapTick}

GapTimeFields == {OffsetText(o) : o \in GapInstants} \cup {BadOffset}

GapTeleFiles ==
    {None} \cup {Some([anchor |-> 0, rows |-> r]) : r \in SeqsUpTo(GapTimeFields, MaxRows)}

GapFaultFiles ==
    {None} \cup {Some(r) : r \in SeqsUpTo({OrdinalRow(t) : t \in GapInstants} \cup {BadRow},
                                          MaxFaultRows)}

\* the directory holds 24HR.log, 24prev.log and FaultLog.log at most
InitGap ==
    /\ pc = "start"
    /\ \E f1, f2 \in GapTeleFiles, ff \in GapFaultFiles :
           /\ RowCount(f1) + RowCount(f2) <= MaxRows
           /\ logs = [n \in Names |-> IF n = "24HR" THEN f1 ELSE IF n = "24prev" THEN f2
                                      ELSE IF n = "Month" THEN None ELSE ff]
    /\ margin = UnreadMargin
    /\ overlap_policy = Unread
    /\ exclude_policy = Unread
    /\ csv_files = [n \in Names |-> None]
    /\ debug_out = [n \in {"24HR", "24prev"} |-> None]
    /\ output_file = None
    /\ temp_files = {} /\ temps_created = 0
    /\ fault_min = None /\ fault_max = None /\ overlapping_files = <<>>
    /\ overlapping_file = "none"
    /\ fault_data = <<>> /\ fault_clusters = <<>>
    /\ all_rows = <<>> /\ covered_ranges = <<>> /\ file_idx = 0
    /\ raised = FALSE /\ result = "running"
    /\ args = None /\ ret = None

SpecGap == InitGap /\ [][Next]_vars

(***************************************************************************)
(* Specification SpecDense: process_directory_mode on a directory whose    *)
(* fault log holds up to three events five minutes apart, so that a fault  *)
(* range shortened by a negative margin still holds an event.              *)
(***************************************************************************)
DenseTick == 2          \* dense inputs: instants 0, 300, .. 300*DenseTick
MaxDenseFaults == 3     \* dense inputs: at most this many rows in the fault log
MaxDenseRows == 2       \* dense inputs: at most this many data rows in the directory

DenseTeleFiles ==
    {None} \cup {Some([anchor |-> 0, rows |-> r]) :
                    r \in SeqsUpTo({OffsetText(o) : o \in Grid(DenseTick)} \cup {BadOffset},
                                   MaxDenseRows)}

DenseFaultFiles ==
    {None} \cup {Some(r) : r \in SeqsUpTo({OrdinalRow(t) : t \in Grid(DenseTick)} \cup {BadRow},
                                          MaxDenseFaults)}

\* the directory holds 24HR.log, 24prev.log and FaultLog.log at most
InitDense ==
    /\ pc = "start"
    /\ \E f1, f2 \in DenseTeleFiles, ff \in DenseFaultFiles :
           /\ RowCount(f1) + RowCount(f2) <= MaxDenseRows
           /\ logs = [n \in Names |-> IF n = "24HR" THEN f1 ELSE IF n = "24prev" THEN f2
                                      ELSE IF n = "Month" THEN None ELSE ff]
    /\ margin = UnreadMargin
    /\ overlap_policy = Unread
    /\ exclude_policy = Unread
    /\ csv_files = [n \in Names |-> None]
    /\ debug_out = [n \in {"24HR", "24prev"} |-> None]
    /\ output_file = None
    /\ temp_files = {} /\ temps_created = 0
    /\ fault_min = None /\ fault_max = None /\ overlapping_files = <<>>
    /\ overlapping_file = "none"
    /\ fault_data = <<>> /\ fault_clusters = <<>>
    /\ all_rows = <<>> /\ covered_ranges = <<>> /\ file_idx = 0
    /\ raised = FALSE /\ result = "running"
    /\ args = None /\ ret = None

SpecDense == InitDense /\ [][Next]_vars

(***************************************************************************)
(* Specification SpecLong: process_directory_mode on a directory whose     *)
(* data files may hold a row with more fields than the header.             *)
(***************************************************************************)
LongTimeFields ==
    {OffsetText(o) : o \in Grid(MaxTick)} \cup {BadOffset}
    \cup {LongRow(OffsetText(300), OffsetText(0))}

LongTeleFiles ==
    {None} \cup {Some([anchor |-> 0, rows |-> r]) : r \in SeqsUpTo(LongTimeFields, MaxRows)}

LongFaultFiles ==
    {None} \cup {Some(r) : r \in SeqsUpTo({OrdinalRow(t) : t \in Grid(MaxTick)} \cup {BadRow},
                                          MaxFaultRows)}

\* the directory holds 24HR.log, 24prev.log and FaultLog.log at most
InitLong ==
    /\ pc = "start"
    /\ \E f1, f2 \in LongTeleFiles, ff \in LongFaultFiles :
           /\ RowCount(f1) + RowCount(f2) <= MaxRows
           /\ logs = [n \in Names |-> IF n = "24HR" THEN f1 ELSE IF n = "24prev" THEN f2
                                      ELSE IF n = "Month" THEN None ELSE ff]
    /\ margin = UnreadMargin
    /\ overlap_policy = Unread
    /\ exclude_policy = Unread
    /\ csv_files = [n \in Names |-> None]
    /\ debug_out = [n \in {"24HR", "24prev"} |-> None]
    /\ output_file = None
    /\ temp_files = {} /\ temps_created = 0
    /\ fault_min = None /\ fault_max = None /\ overlapping_files = <<>>
    /\ overlapping_file = "none"
    /\ fault_data = <<>> /\ fault_clusters = <<>>
    /\ all_rows = <<>> /\ covered_ranges = <<>> /\ file_idx = 0
    /\ raised = FALSE /\ result = "running"
    /\ args = None /\ ret = None

SpecLong == InitLong /\ [][Next]_vars

(***************************************************************************)
(* convert_csv at the level of columns.  A header line is a sequence of    *)
(* column names, a column name a sequence of characters, a data row a      *)
(* sequence of cells.  A cell is a time-offset text or any other text,     *)
(* which parse_time_offset_to_scet rejects when it is read as the time.    *)
(***************************************************************************)
MaxCols == 2            \* column inputs: at most this many measurement columns
MaxCells == 4           \* column inputs: at most this many cells in a data row
MaxWideRows == 2        \* column inputs: at most this many data rows

\* the index of the first occurrence of a character (str.index)
IndexOf(ch, text) == CHOOSE p \in 1..Len(text) : text[p] = ch /\ \A q \in 1..(p - 1) : text[q] # ch

LastIndexOf(ch, text) == CHOOSE p \in 1..Len(text) : text[p] = ch /\ \A q \in (p + 1)..Len(text) : text[q] # ch

\* the split at the last "(" instead of the first
extract_unit_at_last_parenthesis(column_name) ==
    IF InSeq("(", column_name) /\ column_name[Len(column_name)] = ")"
    THEN <<SubSeq(column_name, 1, LastIndexOf("(", column_name) - 1),
           SubSeq(column_name, LastIndexOf("(", column_name) + 1, Len(column_name) - 1)>>
    ELSE <<column_name, <<>>>>

\* "if '(' in column_name and column_name.endswith(')')": the name is the text
\* before the first "(", the unit the text between it and the last character
extract_unit_from_column_name(column_name) ==
    IF InSeq("(", column_name) /\ column_name[Len(column_name)] = ")"
    THEN <<SubSeq(column_name, 1, IndexOf("(", column_name) - 1),
           SubSeq(column_name, IndexOf("(", column_name) + 1, Len(column_name) - 1)>>
    ELSE <<column_name, <<>>>>

\* data_columns: every column but the first (RecNr) and the last (Time)
data_columns(headers) ==
    LET idx == SelectSeq([i \in 1..Len(headers) |-> i], LAMBDA i : i # 1 /\ i # Len(headers))
    IN  [c \in 1..Len(idx) |-> [idx |-> idx[c],
                                name |-> extract_unit_from_column_name(headers[idx[c]])[1],
                                unit |-> extract_unit_from_column_name(headers[idx[c]])[2]]]

\* "if not row or len(row) < len(headers): continue"
RowSkipped(row, headers) == row = <<>> \/ Len(row) < Len(headers)

\* row[time_col_idx] with time_col_idx = len(headers) - 1: for an empty header
\* line the index is -1, the row's last cell
TimeValue(row, headers) == IF headers = <<>> THEN row[Len(row)] ELSE row[Len(headers)]

\* the output rows of one data row: one per data column
RowRecords(row, headers, scet_timestamp) ==
    [c \in 1..Len(data_columns(headers)) |->
        [scet |-> scet_timestamp, name |-> data_columns(headers)[c].name,
         value |-> row[data_columns(headers)[c].idx], unit |-> data_columns(headers)[c].unit]]

RECURSIVE WideRows(_, _, _, _, _, _)
\* the loop "for row in reader" of convert_csv: None when
\* parse_time_offset_to_scet raises, else Some(rows collected)
WideRows(headers, rows, i, base_date, min_datetime, max_datetime) ==
    IF i > Len(rows) THEN Some(<<>>)
    ELSE IF RowSkipped(rows[i], headers)
    THEN WideRows(headers, rows, i + 1, base_date, min_datetime, max_datetime)
    ELSE LET scet_timestamp == parse_time_offset_to_scet(TimeValue(rows[i], headers), base_date)
         IN  IF scet_timestamp = None THEN None
             ELSE LET rest == WideRows(headers, rows, i + 1, base_date, min_datetime, max_datetime)
                  IN  IF rest = None THEN None
                      ELSE Some((IF InTimeFilter(Val(Strptime(Val(scet_timestamp))),
                                                 min_datetime, max_datetime)
                                 THEN RowRecords(rows[i], headers, Val(scet_timestamp))
                                 ELSE <<>>) \o Val(rest))

\* convert_csv without a fault file: None when it raises, else Some(the rows
\* written after the output header)
WideToLong(headers, rows, base_date, min_time, max_time) ==
    LET data == WideRows(headers, rows, 1, base_date, Bound(min_time), Bound(max_time))
    IN  IF data = None THEN None ELSE Some(SortRows(Val(data)))

(***************************************************************************)
(* Specification SpecWide: convert_csv applied, without time filter and    *)
(* without fault file, to header lines of every width and data rows of     *)
(* every width, shorter and longer than the header.                        *)
(***************************************************************************)
ColumnNames == {<<"V", "(", "U", ")">>, <<"P">>}

HeaderLines ==
    {<<>>, <<<<"T">>>>} \cup {<<<<"R">>>> \o cols \o <<<<"T">>>> : cols \in SeqsUpTo(ColumnNames, MaxCols)}

\* "5": a text that is no time offset
Cells == {OffsetText(0), OffsetText(300), BadOffset}

InitWide ==
    /\ pc = "convert_call"
    /\ args \in [headers : HeaderLines, rows : SeqsUpTo(SeqsUpTo(Cells, MaxCells), MaxWideRows)]
    /\ ret = None
    /\ fault_data = <<>>
    /\ fault_clusters = <<>>
    /\ logs = None /\ margin = None /\ overlap_policy = None /\ exclude_policy = None
    /\ csv_files = None /\ debug_out = None /\ output_file = None
    /\ temp_files = {} /\ temps_created = 0
    /\ fault_min = None /\ fault_max = None /\ overlapping_files = <<>>
    /\ overlapping_file = "none"
    /\ all_rows = <<>> /\ covered_ranges = <<>> /\ file_idx = 0
    /\ raised = FALSE /\ result = "running"

\* convert_csv returns after writing output_file
ConvertCsv ==
    /\ pc = "convert_call"
    /\ WideToLong(args.headers, args.rows, 0, None, None) # None
    /\ output_file' = WideToLong(args.headers, args.rows, 0, None, None)
    /\ pc' = "convert_done"
    /\ UNCHANGED <<args, ret, params, csv_files, debug_out, temp_files, temps_created, locals,
                   result>>

\* an exception leaves convert_csv before it opens output_file
ConvertCsvRaises ==
    /\ pc = "convert_call"
    /\ WideToLong(args.headers, args.rows, 0, None, None) = None
    /\ pc' = "convert_done"
    /\ result' = "raised"
    /\ UNCHANGED <<args, ret, params, fsys, locals>>

NextWide == ConvertCsv \/ ConvertCsvRaises

SpecWide == InitWide /\ [][NextWide]_vars

(***************************************************************************)
(* Specification SpecSingle: file mode, convert_csv on one telemetry file  *)
(* with or without a fault file, no time filter; instants a few seconds    *)
(* apart.                                                                  *)
(***************************************************************************)
MaxSingleRows == 2      \* file-mode inputs: at most this many rows per file

SingleInstants == {0, 2, 5}

SingleTeleFiles ==
    {[anchor |-> 0, rows |-> r] :
        r \in SeqsUpTo({OffsetText(o) : o \in SingleInstants} \cup {BadOffset}, MaxSingleRows)}

SingleFaultFiles ==
    {None} \cup {Some(r) : r \in SeqsUpTo({OrdinalRow(t) : t \in SingleInstants} \cup {BadRow},
                                          MaxSingleRows)}

InitSingle ==
    /\ pc = "single_call"
    /\ args \in [input_file : SingleTeleFiles, fault_file : SingleFaultFiles]
    /\ ret = None
    /\ fault_data = <<>>
    /\ fault_clusters = <<>>
    /\ logs = None /\ margin = None /\ overlap_policy = None /\ exclude_policy = None
    /\ csv_files = None /\ debug_out = None /\ output_file = None
    /\ temp_files = {} /\ temps_created = 0
    /\ fault_min = None /\ fault_max = None /\ overlapping_files = <<>>
    /\ overlapping_file = "none"
    /\ all_rows = <<>> /\ covered_ranges = <<>> /\ file_idx = 0
    /\ raised = FALSE /\ result = "running"

\* convert_csv(input_path, output_path, fault_file=fault_path) writes the output
ConvertSingle ==
    /\ pc = "single_call"
    /\ convert_csv("input", args.input_file, None, None, args.fault_file) # None
    /\ output_file' = convert_csv("input", args.input_file, None, None, args.fault_file)
    /\ pc' = "single_done"
    /\ result' = "True"
    /\ UNCHANGED <<args, ret, params, csv_files, debug_out, temp_files, temps_created, locals>>

\* an exception leaves convert_csv before it opens the output file
ConvertSingleRaises ==
    /\ pc = "single_call"
    /\ convert_csv("input", args.input_file, None, None, args.fault_file) = None
    /\ pc' = "single_done"
    /\ result' = "raised"
    /\ UNCHANGED <<args, ret, params, fsys, locals>>

NextSingle == ConvertSingle \/ ConvertSingleRaises

SpecSingle == InitSingle /\ [][NextSingle]_vars

(***************************************************************************)
(* Specification SpecSlash: the range scanner and the fault parser applied *)
(* to a fault file whose row carries a date written with '/', for every    *)
(* order and size of its three numbers.                                    *)
(***************************************************************************)
\* the numbers of a date field: days and months, valid or not, and the year
DateFields == {1, 2, 12, 13, 30, 31, 2025}

Clocks == {ClockText(0, 5, 0), ClockText(24, 0, 0), BadClock}

InitSlash ==
    /\ pc = "slash_call"
    /\ \E date \in [1..3 -> DateFields], clock \in Clocks :
           args = [fault_file |-> <<SlashRow(date, clock)>>]
    /\ ret = None
    /\ fault_data = <<>>
    /\ fault_clusters = <<>>
    /\ logs = None /\ margin = None /\ overlap_policy = None /\ exclude_policy = None
    /\ csv_files = None /\ debug_out = None /\ output_file = None
    /\ temp_files = {} /\ temps_created = 0
    /\ fault_min = None /\ fault_max = None /\ overlapping_files = <<>>
    /\ overlapping_file = "none"
    /\ all_rows = <<>> /\ covered_ranges = <<>> /\ file_idx = 0
    /\ raised = FALSE /\ result = "running"

\* fault_min, fault_max = get_time_range_from_csv(fault_csv, is_fault_file=True)
ScanFaultLog ==
    /\ pc = "slash_call"
    /\ fault_min' = get_time_range_from_csv(Some(args.fault_file), TRUE)[1]
    /\ fault_max' = get_time_range_from_csv(Some(args.fault_file), TRUE)[2]
    /\ pc' = "slash_scanned"
    /\ UNCHANGED <<args, ret, params, fsys, overlapping_files, overlapping_file, fault_data,
                   fault_clusters, all_rows, covered_ranges, file_idx, raised, result>>

\* fault_data = parse_fault_data(fault_csv)
ParseFaultLog ==
    /\ pc = "slash_scanned"
    /\ fault_data' = parse_fault_data(args.fault_file, None, None)
    /\ pc' = "slash_done"
    /\ UNCHANGED <<args, ret, params, fsys, fault_min, fault_max, overlapping_files,
                   overlapping_file, fault_clusters, all_rows, covered_ranges, file_idx, raised,
                   result>>

NextSlash == ScanFaultLog \/ ParseFaultLog

SpecSlash == InitSlash /\ [][NextSlash]_vars

(***************************************************************************)
(* parse_time_offset_to_scet at the level of its fields.  A time offset    *)
(* "HH:MM:SS.f" is its three integers and the digits after the point (None *)
(* without a point); an ordinal timestamp "YYYY-DDDTHH:MM:SS" is the       *)
(* record of its five numbers.                                             *)
(***************************************************************************)
OffsetFields(h, m, sec, frac) == [h |-> h, m |-> m, sec |-> sec, frac |-> frac]

OrdinalText(year, doy, h, m, sec) == [year |-> year, doy |-> doy, h |-> h, m |-> m, sec |-> sec]

\* int(seconds_parts[1].ljust(6, '0')[:6]): the first six digits, padded with zeros
FractionMicroseconds(frac) ==
    IF frac = None THEN 0
    ELSE LET digit(i) == IF i <= Len(Val(frac)) THEN Val(frac)[i] ELSE 0
         IN  100000 * digit(1) + 10000 * digit(2) + 1000 * digit(3) + 100 * digit(4)
             + 10 * digit(5) + digit(6)

OffsetSecondsRounded(time_str) ==
    3600 * time_str.h + 60 * time_str.m + time_str.sec
    + (IF FractionMicroseconds(time_str.frac) >= 500000 THEN 1 ELSE 0)

\* the whole seconds of timedelta(hours, minutes, seconds, microseconds): the
\* microseconds stay below one second and strftime('%S') leaves them out
OffsetSeconds(time_str) == 3600 * time_str.h + 60 * time_str.m + time_str.sec

DaysInYear(year) == IF IsLeap(year) THEN 366 ELSE 365

RECURSIVE OrdinalOf(_, _)
\* strftime('%Y-%jT%H:%M:%S') of the instant that lies secs seconds after the
\* start of the year
OrdinalOf(year, secs) ==
    IF secs >= 86400 * DaysInYear(year) THEN OrdinalOf(year + 1, secs - 86400 * DaysInYear(year))
    ELSE OrdinalText(year, (secs \div 86400) + 1, (secs % 86400) \div 3600, (secs % 3600) \div 60,
                     secs % 60)

\* base_date + offset, formatted: the function on a base date and an offset
\* that both parse
parse_time_offset_fields(time_str, base_date_str) ==
    OrdinalOf(base_date_str.year,
              86400 * (base_date_str.doy - 1) + 3600 * base_date_str.h + 60 * base_date_str.m
              + base_date_str.sec + OffsetSeconds(time_str))

(***************************************************************************)
(* Specification SpecOffset: parse_time_offset_to_scet applied to two      *)
(* offsets and one anchor, the anchors at the end of a year of 365 and of  *)
(* 366 days included.                                                      *)
(***************************************************************************)
Anchors == {OrdinalText(2025, 354, 0, 0, 0), OrdinalText(2025, 365, 23, 59, 59),
            OrdinalText(2024, 365, 23, 59, 59), OrdinalText(2024, 366, 23, 0, 0)}

Fractions == {None, Some(<<5>>), Some(<<9, 9, 9, 9, 9, 9, 9>>)}

Offsets == {OffsetFields(h, m, sec, frac) :
               h \in {0, 23, 24}, m \in {0, 59, 60}, sec \in {0, 1, 59}, frac \in Fractions}

InitOffset ==
    /\ pc = "offset_call"
    /\ args \in [base_date_str : Anchors, first : Offsets, second : Offsets]
    /\ ret = None
    /\ fault_data = <<>>
    /\ fault_clusters = <<>>
    /\ logs = None /\ margin = None /\ overlap_policy = None /\ exclude_policy = None
    /\ csv_files = None /\ debug_out = None /\ output_file = None
    /\ temp_files = {} /\ temps_created = 0
    /\ fault_min = None /\ fault_max = None /\ overlapping_files = <<>>
    /\ overlapping_file = "none"
    /\ all_rows = <<>> /\ covered_ranges = <<>> /\ file_idx = 0
    /\ raised = FALSE /\ result = "running"

\* the function is called on both offsets
ParseTimeOffsets ==
    /\ pc = "offset_call"
    /\ ret' = Some(<<parse_time_offset_fields(args.first, args.base_date_str),
                     parse_time_offset_fields(args.second, args.base_date_str)>>)
    /\ pc' = "offset_done"
    /\ UNCHANGED <<args, params, fsys, locals, result>>

NextOffset == ParseTimeOffsets

SpecOffset == InitOffset /\ [][NextOffset]_vars

(***************************************************************************)
(* The anchor of a telemetry file.  Its metadata line is the number of its *)
(* fields, its third field (the date, three numbers joined by '/', or a    *)
(* text that is no date) and its fourth (the time: the integers between    *)
(* the ':', None when one of them is no integer).                          *)
(***************************************************************************)
MetadataLine(fields, date, time) == [fields |-> fields, date |-> date, time |-> time]

OtherAnchor == OrdinalText(2025, 1, 0, 0, 0)

\* "base_date_str = '2025-354T00:00:00'  # Default" of convert_csv
convert_default_base_date == OrdinalText(2025, 354, 0, 0, 0)

\* "base_date_str = '2025-354T00:00:00'" of the scanner's except branch
scan_default_base_date == OrdinalText(2025, 354, 0, 0, 0)

\* the default of parse_time_offset_to_scet's base_date_str argument
default_base_date_str == OrdinalText(2025, 354, 0, 0, 0)

\* base_dt.replace(hour=, minute=, second=) with "if len(time_parts) > n else 0",
\* formatted; None stands for the ValueError of int() or replace()
AnchorText(ymd, time) ==
    IF time = None THEN None
    ELSE LET part(n) == IF Len(Val(time)) >= n THEN Val(time)[n] ELSE 0
         IN  IF part(1) > 23 \/ part(2) > 59 \/ part(3) > 59 THEN None
             ELSE Some(OrdinalText(ymd[1], DaysBeforeMonth(ymd[2], ymd[1]) + ymd[3],
                                   part(1), part(2), part(3)))

\* convert_csv: base_date_str after reading the metadata line
ConvertAnchor(metadata_line) ==
    IF metadata_line.fields >= 4
    THEN (IF StrptimeDMY(metadata_line.date) = None
             \/ AnchorText(Val(StrptimeDMY(metadata_line.date)), metadata_line.time) = None
          THEN convert_default_base_date
          ELSE Val(AnchorText(Val(StrptimeDMY(metadata_line.date)), metadata_line.time)))
    ELSE convert_default_base_date

\* get_time_range_from_csv: base_date_str after reading the metadata line, None
\* when the line has fewer than four fields
ScanAnchor(metadata_line) ==
    IF metadata_line.fields > 0 /\ metadata_line.fields >= 4
    THEN (IF StrptimeDMY(metadata_line.date) = None
             \/ AnchorText(Val(StrptimeDMY(metadata_line.date)), metadata_line.time) = None
          THEN Some(scan_default_base_date)
          ELSE AnchorText(Val(StrptimeDMY(metadata_line.date)), metadata_line.time))
    ELSE None

\* "if base_date_str: parse_time_offset_to_scet(time_value, base_date_str)
\*  else: parse_time_offset_to_scet(time_value)"
ScanTimestamp(time_value, base_date_str) ==
    IF base_date_str # None THEN parse_time_offset_fields(time_value, Val(base_date_str))
    ELSE parse_time_offset_fields(time_value, default_base_date_str)

(***************************************************************************)
(* Specification SpecAnchor: the range scanner and convert_csv applied to  *)
(* a telemetry file of one data row, for metadata lines with a valid, a    *)
(* malformed and a missing date or time.                                   *)
(***************************************************************************)
AnchorDates == {<<1, 1, 2025>>, <<31, 12, 2025>>, <<1, 13, 2025>>, <<0, 0, 0>>}

AnchorTimes == {Some(<<0, 0, 0>>), Some(<<12>>), Some(<<25, 0, 0>>), None}

MetadataLines == {MetadataLine(n, d, t) : n \in {0, 3, 5}, d \in AnchorDates, t \in AnchorTimes}

InitAnchor ==
    /\ pc = "anchor_call"
    /\ args \in [metadata_line : MetadataLines,
                 time_value : {OffsetFields(0, 0, 0, None), OffsetFields(0, 5, 0, None),
                               OffsetFields(24, 0, 0, None)}]
    /\ ret = None
    /\ fault_data = <<>>
    /\ fault_clusters = <<>>
    /\ logs = None /\ margin = None /\ overlap_policy = None /\ exclude_policy = None
    /\ csv_files = None /\ debug_out = None /\ output_file = None
    /\ temp_files = {} /\ temps_created = 0
    /\ fault_min = None /\ fault_max = None /\ overlapping_files = <<>>
    /\ overlapping_file = "none"
    /\ all_rows = <<>> /\ covered_ranges = <<>> /\ file_idx = 0
    /\ raised = FALSE /\ result = "running"

\* file_min, file_max = get_time_range_from_csv(file_path, is_fault_file=False)
ScanDataFile ==
    /\ pc = "anchor_call"
    /\ ret' = Some(<<ScanTimestamp(args.time_value, ScanAnchor(args.metadata_line)),
                     ScanTimestamp(args.time_value, ScanAnchor(args.metadata_line))>>)
    /\ pc' = "anchor_scanned"
    /\ UNCHANGED <<args, params, fsys, locals, result>>

\* convert_csv writes the row with its timestamp
ConvertDataFile ==
    /\ pc = "anchor_scanned"
    /\ output_file' = Some(<<[scet |-> parse_time_offset_fields(args.time_value,
                                           ConvertAnchor(args.metadata_line)),
                              name |-> "AvgVin", value |-> <<"input", 1>>, unit |-> "U"]>>)
    /\ pc' = "anchor_done"
    /\ UNCHANGED <<args, ret, params, csv_files, debug_out, temp_files, temps_created, locals,
                   result>>

NextAnchor == ScanDataFile \/ ConvertDataFile

SpecAnchor == InitAnchor /\ [][NextAnchor]_vars

(***************************************************************************)
(* extract_unit_from_column_name on its own: column names are texts of at  *)
(* most MaxNameLen characters over two letters and the two parentheses.    *)
(***************************************************************************)
MaxNameLen == 4

NameChars == {"A", "B", "(", ")"}

InitUnit ==
    /\ pc = "unit_call"
    /\ args \in [column_name : SeqsUpTo(NameChars, MaxNameLen)]
    /\ ret = None
    /\ fault_data = <<>>
    /\ fault_clusters = <<>>
    /\ logs = None /\ margin = None /\ overlap_policy = None /\ exclude_policy = None
    /\ csv_files = None /\ debug_out = None /\ output_file = None
    /\ temp_files = {} /\ temps_created = 0
    /\ fault_min = None /\ fault_max = None /\ overlapping_files = <<>>
    /\ overlapping_file = "none"
    /\ all_rows = <<>> /\ covered_ranges = <<>> /\ file_idx = 0
    /\ raised = FALSE /\ result = "running"

\* "name, unit = extract_unit_from_column_name(header)"
ExtractUnit ==
    /\ pc = "unit_call"
    /\ ret' = Some(extract_unit_from_column_name(args.column_name))
    /\ pc' = "unit_done"
    /\ UNCHANGED <<args, params, fsys, locals, result>>

NextUnit == ExtractUnit

SpecUnit == InitUnit /\ [][NextUnit]_vars

(***************************************************************************)
(* Claims about check_overlap (checked under SpecOverlap).                 *)
(***************************************************************************)
AllDefined(a) == a.a_min # None /\ a.a_max # None /\ a.b_min # None /\ a.b_max # None

\* C1: check_overlap returns true exactly when all four bounds are defined and
\* a_min <= b_max and b_min <= a_max; ranges sharing only a boundary instant
\* overlap, ranges separated by a gap do not, an undefined bound overlaps nothing.
C1_OverlapIffClosedRangesMeet ==
    pc = "overlap_done" =>
        /\ Val(ret) <=> ( /\ AllDefined(args)
                          /\ Val(args.a_min) <= Val(args.b_max)
                          /\ Val(args.b_min) <= Val(args.a_max) )
        /\ (AllDefined(args) /\ args.a_max = args.b_min /\ Val(args.a_min) <= Val(args.a_max)
               /\ Val(args.b_min) <= Val(args.b_max)) => Val(ret)
        /\ (AllDefined(args) /\ Val(args.a_max) < Val(args.b_min) /\ Val(args.a_min) <= Val(args.a_max)
               /\ Val(args.b_min) <= Val(args.b_max)) => ~Val(ret)
        /\ ~AllDefined(args) => ~Val(ret)

\* the ranges [t0,t10] and [t10,t20] were tested and found to overlap
C1_Witness ==
    /\ pc = "overlap_done"
    /\ args = [a_min |-> Some(0), a_max |-> Some(300), b_min |-> Some(300), b_max |-> Some(600)]
    /\ ret = Some(TRUE)

(***************************************************************************)
(* Claims about identify_fault_clusters (checked under SpecCluster).       *)
(***************************************************************************)
\* the instants of the input rows whose timestamp parses
ParsableTimes == {Val(Strptime(fault_data[i].scet)) :
                     i \in {j \in 1..Len(fault_data) : Strptime(fault_data[j].scet) # None}}

Consecutive(a, b) == a \in ParsableTimes /\ b \in ParsableTimes /\ a < b
                        /\ ~\E m \in ParsableTimes : a < m /\ m < b

InCluster(t, c) == c.min_time <= t /\ t <= c.max_time

SameCluster(a, b) == \E k \in 1..Len(fault_clusters) :
                         InCluster(a, fault_clusters[k]) /\ InCluster(b, fault_clusters[k])

\* C4: two consecutive distinct sorted timestamps share a cluster exactly when
\* their gap is <= 10 minutes; timestamps each exactly one threshold apart form
\* one cluster; the gap between one cluster's end and the next one's start is
\* larger than the threshold.
C4_GapAtMostThresholdJoins ==
    pc = "cluster_done" =>
        /\ \A a, b \in ParsableTimes :
               Consecutive(a, b) => (SameCluster(a, b) <=> b - a <= 600)
        /\ (ParsableTimes # {} /\ \A a, b \in ParsableTimes : Consecutive(a, b) => b - a = 600)
               => Len(fault_clusters) = 1
        /\ \A k \in 1..Len(fault_clusters) - 1 :
               fault_clusters[k + 1].min_time - fault_clusters[k].max_time > 600

\* three timestamps, each exactly ten minutes after the previous, in one cluster
C4_Witness ==
    /\ pc = "cluster_done"
    /\ ParsableTimes = {0, 600, 1200}
    /\ fault_clusters = <<Cluster(0, 1200, 3)>>

\* C5: for every input order the clusters are in strictly ascending time order
\* and pairwise disjoint, each has min_time <= max_time, every parsable input
\* timestamp lies in exactly one cluster, the first cluster starts at the
\* earliest timestamp and the last one ends at the latest.
C5_ClustersOrderedDisjointCovering ==
    pc = "cluster_done" =>
        /\ \A k \in 1..Len(fault_clusters) : fault_clusters[k].min_time <= fault_clusters[k].max_time
        /\ \A k \in 1..Len(fault_clusters) - 1 :
               fault_clusters[k].max_time < fault_clusters[k + 1].min_time
        /\ \A t \in ParsableTimes :
               Cardinality({k \in 1..Len(fault_clusters) : InCluster(t, fault_clusters[k])}) = 1
        /\ ParsableTimes # {} =>
               /\ Len(fault_clusters) >= 1
               /\ \A t \in ParsableTimes :
                      /\ fault_clusters[1].min_time <= t
                      /\ t <= fault_clusters[Len(fault_clusters)].max_time
               /\ fault_clusters[1].min_time \in ParsableTimes
               /\ fault_clusters[Len(fault_clusters)].max_time \in ParsableTimes
        /\ ParsableTimes = {} => fault_clusters = <<>>

\* fault rows given latest first, clustered into two clusters
C5_Witness ==
    /\ pc = "cluster_done"
    /\ Len(fault_data) = 3
    /\ fault_data[1].scet = Strftime(1500)
    /\ fault_data[2].scet = Strftime(300)
    /\ fault_data[3].scet = Strftime(0)
    /\ fault_clusters = <<Cluster(0, 300, 2), Cluster(1500, 1500, 1)>>

RECURSIVE SumFaultCounts(_)
SumFaultCounts(clusters) ==
    IF clusters = <<>> THEN 0 ELSE Head(clusters).fault_count + SumFaultCounts(Tail(clusters))

DataNames == {"24HR", "24prev", "Month"}

Priority(name) == IF name = "24HR" THEN 1 ELSE IF name = "24prev" THEN 2 ELSE 3

\* the instants of the data rows of a telemetry file whose time field decodes
DataInstants(name) ==
    IF logs[name] = None THEN {}
    ELSE LET f == Val(logs[name])
         IN  {f.anchor + f.rows[i].off : i \in {j \in 1..Len(f.rows) : "off" \in DOMAIN f.rows[j]}}

SetMin(S) == CHOOSE x \in S : \A y \in S : x <= y
SetMax(S) == CHOOSE x \in S : \A y \in S : x >= y

\* the file exists, has a range, and the range overlaps the current fault range
IsCandidate(name) ==
    /\ DataInstants(name) # {}
    /\ SetMin(DataInstants(name)) <= Val(fault_max)
    /\ Val(fault_min) <= SetMax(DataInstants(name))

\* the margin stage is behind: fault_min and fault_max are the expanded range
RangeExpanded ==
    /\ fault_min # None /\ fault_max # None
    /\ margin # UnreadMargin
    /\ parse_margin(margin) # None

MeasurementSources(rows) == {rows[k].value[1] : k \in {j \in 1..Len(rows) : rows[j].name # "Fault"}}

\* C2: under ONLY_RECENT the one data file transformed into the output is the
\* first of 24HR, 24prev, Month whose scanned range overlaps the (expanded)
\* fault range: no higher-priority file is a candidate, whatever the ranges.
C2_SelectSingleTakesFirstOverlapping ==
    overlap_policy = "ONLY_RECENT" =>
        /\ overlapping_file \in DataNames
        /\ IsCandidate(overlapping_file)
        /\ \A n \in DataNames : Priority(n) < Priority(overlapping_file) => ~IsCandidate(n)
        /\ output_file # None => MeasurementSources(Val(output_file)) \subseteq {overlapping_file}

\* 24HR and 24prev both overlap, 24prev holds the later data, 24HR is used
C2_Witness ==
    /\ pc = "done" /\ result = "True"
    /\ overlap_policy = "ONLY_RECENT"
    /\ IsCandidate("24HR") /\ IsCandidate("24prev")
    /\ SetMax(DataInstants("24prev")) > SetMax(DataInstants("24HR"))
    /\ overlapping_file = "24HR"
    /\ MeasurementSources(Val(output_file)) = {"24HR"}

\* the segment of a data file: its range cut to the fault range
SegmentOf(name) ==
    <<IF Val(fault_min) >= SetMin(DataInstants(name)) THEN Val(fault_min)
      ELSE SetMin(DataInstants(name)),
      IF Val(fault_max) <= SetMax(DataInstants(name)) THEN Val(fault_max)
      ELSE SetMax(DataInstants(name))>>

Within(seg, cov) == cov[1] <= seg[1] /\ seg[2] <= cov[2]

WithinSome(seg, covered) == \E k \in 1..Len(covered) : Within(seg, covered[k])

\* the data file the MergeAll loop is looking at
CurrentFile == overlapping_files[file_idx]

\* C3: under ALL, a source whose segment lies within the segment of one
\* previously accepted source is skipped and adds no rows, no covered range and
\* no temporary file; a source is accepted (its segment recorded, its rows
\* appended) only when its segment lies within no recorded segment.
C3_MergeAllSkipsContainedSegments ==
    [][ /\ (pc = "merge_loop" /\ file_idx <= Len(overlapping_files)
              /\ WithinSome(SegmentOf(CurrentFile), covered_ranges))
           => (/\ all_rows' = all_rows
               /\ covered_ranges' = covered_ranges
               /\ temp_files' = temp_files
               /\ file_idx' = file_idx + 1
               /\ pc' = "merge_loop")
        /\ (overlap_policy = "ALL" /\ (all_rows' # all_rows \/ covered_ranges' # covered_ranges)
              /\ pc' # "done")
           => (/\ ~WithinSome(SegmentOf(CurrentFile), covered_ranges)
               /\ covered_ranges' = Append(covered_ranges, SegmentOf(CurrentFile))
               /\ MeasurementSources(all_rows') \subseteq
                      MeasurementSources(all_rows) \cup {CurrentFile})
      ]_vars

\* two overlapping files were looked at, one was accepted and its rows
\* collected, the other one skipped
C3_Witness ==
    /\ pc = "merge_loop"
    /\ file_idx = 3
    /\ Len(covered_ranges) = 1
    /\ MeasurementSources(all_rows) = {overlapping_files[1]}
    /\ Within(SegmentOf(overlapping_files[2]), covered_ranges[1])

\* C7: when no candidate overlaps the (expanded) fault range the run returns
\* failure and the output file does not exist at any point of the run.
C7_NoOverlapAbortsWithoutOutput ==
    /\ (RangeExpanded /\ ~\E n \in DataNames : IsCandidate(n))
           => (/\ output_file = None
               /\ pc \in {"overlap", "done"}
               /\ pc = "done" => result = "False")
    /\ pc \in {"start", "intermediate", "fault_range", "margin", "overlap"} => output_file = None

\* data files with a range exist, none overlaps, the run has returned failure
C7_Witness ==
    /\ pc = "done" /\ result = "False"
    /\ RangeExpanded
    /\ \E n \in DataNames : DataInstants(n) # {}
    /\ ~\E n \in DataNames : IsCandidate(n)
    /\ output_file = None

\* the fault log holds no row that parse_fault_data can decode
NoParsableFault ==
    \/ logs["FaultLog"] = None
    \/ \A i \in 1..Len(Val(logs["FaultLog"])) : Val(logs["FaultLog"])[i].fmt = "bad"

\* C8 (as claimed): a fault log without parsable events aborts the run before
\* any source is selected and without output, and a run that gets to the policy
\* stage has at least one fault event and one fault cluster.
C8_PolicyStageHasFaults ==
    /\ (NoParsableFault /\ pc = "done")
           => (result = "False" /\ output_file = None /\ overlapping_files = <<>>)
    /\ overlap_policy # Unread => (fault_data # <<>> /\ fault_clusters # <<>>)

\* the run deals with a structural problem: one of the failures that abort it
StructuralFailure ==
    \/ fault_min = None \/ fault_max = None
    \/ parse_margin(margin) = None
    \/ overlapping_files = <<>>

\* C9 (as claimed): a time field that fails to decode costs only its row; a run
\* without a structural problem completes and writes the output.
C9_BadRowOnlyDropsRow ==
    (pc = "done" /\ ~StructuralFailure) => (result = "True" /\ output_file # None)

\* C10: at most one temporary file exists at any time, only inside the try
\* block of the MergeAll loop, and none is left when the call returns or an
\* exception leaves it.
C10_TempFilesDeleted ==
    /\ Cardinality(temp_files) <= 1
    /\ temp_files # {} => pc \in {"merge_try", "merge_finally"}
    /\ pc = "done" => temp_files = {}
    /\ pc \in {"merge_try", "merge_finally"} => temp_files = {temps_created}

\* convert_csv raised inside the try block after an earlier file was merged;
\* the exception has left the call and no temporary file is left
C10_Witness ==
    /\ pc = "done" /\ result = "raised"
    /\ overlap_policy = "ALL"
    /\ temps_created = 2
    /\ temp_files = {}

\* the margin argument has been read and parse_margin accepts it
MarginAccepted == margin # UnreadMargin /\ parse_margin(margin) # None

WellFormed(range) == range[1] <= range[2]

\* the range the scanner returns for a file: undefined, or start <= end
ScannedWellFormed(csv_file, is_fault_file) ==
    LET r == get_time_range_from_csv(csv_file, is_fault_file)
    IN  \/ r = <<None, None>>
        \/ r[1] # None /\ r[2] # None /\ Val(r[1]) <= Val(r[2])

\* C11 (as claimed): no time range with start > end is ever constructed: the
\* scanned range of every file, the margin-expanded fault range, every MergeAll
\* segment and every margin-expanded cluster span has start <= end, and a file
\* without a parsable timestamp has the undefined range.
C11_NoRangeWithStartAfterEnd ==
    /\ \A n \in Names : ScannedWellFormed(csv_files[n], n = "FaultLog")
    /\ (fault_min # None /\ fault_max # None) => Val(fault_min) <= Val(fault_max)
    /\ \A k \in 1..Len(covered_ranges) : WellFormed(covered_ranges[k])
    /\ (pc \in {"merge_try", "merge_finally"}) => WellFormed(Segment(overlapping_files[file_idx]))
    /\ (MarginAccepted /\ exclude_policy = "ALL") =>
           \A k \in 1..Len(fault_clusters) : WellFormed(ClusterRange(fault_clusters[k], ExclusionMargin))

\* some file of the directory has been written by the run
SomeFileWritten ==
    \/ \E n \in Names : csv_files[n] # None
    \/ \E n \in {"24HR", "24prev"} : debug_out[n] # None
    \/ output_file # None

\* C12 (as claimed): a margin string with invalid syntax makes the run fail
\* without having created or written any file: no .csv re-encoding of a log, no
\* intermediate -out.csv file, no canonical output.
C12_InvalidMarginAbortsBeforeIO ==
    (margin # UnreadMargin /\ parse_margin(margin) = None) =>
        (pc = "done" /\ result = "False" /\ ~SomeFileWritten)

\* the configured margin in seconds, zero when none is configured
MarginSeconds == IF margin = None THEN 0 ELSE Val(parse_margin(margin))

InSomeClusterSpan(t) ==
    \E k \in 1..Len(fault_clusters) :
        /\ fault_clusters[k].min_time - MarginSeconds <= t
        /\ t <= fault_clusters[k].max_time + MarginSeconds

\* the rows ClusterOnly is to keep: timestamp inside a cluster span, or unparsable
KeptByClusterOnly(row) ==
    Strptime(row.scet) = None \/ InSomeClusterSpan(Val(Strptime(row.scet)))

\* the rows the run would write without the exclusion step
BeforeExclusion == IF overlap_policy = "ONLY_RECENT" THEN Val(output_file) ELSE SortRows(all_rows)

\* single rows handed to the filter: every instant around the inputs, and a
\* timestamp that does not parse
ProbeRows == {MeasurementTuple(text, <<"probe", 1>>) :
                 text \in {BadText} \cup {Strftime(300 * k) : k \in -2..(GapTick + 2)}}

\* C13: with exclude_policy ALL, after either merge policy, the output is the
\* rows the run would otherwise write restricted to those whose timestamp lies
\* in [min_time - margin, max_time + margin] of some cluster (inclusive), plus
\* the rows whose timestamp does not parse, unaltered and in the same order.
C13_ClusterOnlyKeepsRowsInSpans ==
    [][ (exclude_policy' = "ALL" /\ result' = "True") =>
            /\ output_file' = Some(SelectSeq(BeforeExclusion, KeptByClusterOnly))
            /\ fault_clusters # <<>> =>
                   \A r \in ProbeRows :
                       filter_data_by_clusters(<<r>>, fault_clusters, ExclusionMargin)
                           = IF KeptByClusterOnly(r) THEN <<r>> ELSE <<>>
      ]_vars

\* the instants of the fault log's rows that the range scanner decodes
FaultScanInstants ==
    IF logs["FaultLog"] = None THEN {}
    ELSE {Val(logs["FaultLog"])[i].t :
             i \in {j \in 1..Len(Val(logs["FaultLog"])) : Val(logs["FaultLog"])[j].fmt = "ordinal"}}

\* the seconds a margin text '<n>s' or '<n>m' stands for
SecondsOfText(m) == IF m = None THEN 0 ELSE IF Val(m).suffix = "m" THEN 60 * Val(Val(m).num)
                    ELSE Val(Val(m).num)

\* the data file has a range that meets [lo, hi]
MeetsRange(name, lo, hi) ==
    /\ DataInstants(name) # {}
    /\ SetMin(DataInstants(name)) <= hi
    /\ lo <= SetMax(DataInstants(name))

\* C14: a configured margin expands the fault range [lo, hi] to
\* [lo - n, hi + n] seconds for '<n>s' and to [lo - 60n, hi + 60n] for '<n>m'
\* before the overlap test, and the overlapping files are exactly the data files
\* whose range meets the expanded range.
C14_MarginExpandsRangeBeforeOverlapTest ==
    /\ \A n \in 0..10 : /\ parse_margin(Some(MarginText(n, "s"))) = Some(n)
                        /\ parse_margin(Some(MarginText(n, "m"))) = Some(60 * n)
    /\ RangeExpanded =>
           /\ fault_min = Some(SetMin(FaultScanInstants) - SecondsOfText(margin))
           /\ fault_max = Some(SetMax(FaultScanInstants) + SecondsOfText(margin))
    /\ (RangeExpanded /\ pc # "overlap") =>
           /\ \A n \in DataNames :
                  InSeq(n, overlapping_files) <=>
                      MeetsRange(n, SetMin(FaultScanInstants) - SecondsOfText(margin),
                                 SetMax(FaultScanInstants) + SecondsOfText(margin))
           /\ overlapping_files = <<>> => result = "False"

\* margin '5m': a data file that ends five minutes before the first fault
\* overlaps the expanded range, and would not overlap the fault range itself
C14_Witness ==
    /\ pc = "policy"
    /\ margin = Some(MarginText(5, "m"))
    /\ DataInstants("24HR") # {}
    /\ SetMax(DataInstants("24HR")) < SetMin(FaultScanInstants)
    /\ ~MeetsRange("24HR", SetMin(FaultScanInstants), SetMax(FaultScanInstants))
    /\ overlapping_files = <<"24HR">>

\* the instant a row's timestamp text denotes
InstantOf(row) == row.scet.scet

Ascending(rows) == \A i, j \in 1..Len(rows) : i < j => InstantOf(rows[i]) <= InstantOf(rows[j])

\* C15: every output file convert_csv or the merge writes has its rows in
\* non-decreasing timestamp order: the canonical output under either overlap
\* policy, before and after the exclusion filter, with any margin, and the
\* outputs convert_csv writes from one file without a fault file.
C15_OutputSortedByTimestamp ==
    /\ output_file # None => Ascending(Val(output_file))
    /\ \A n \in {"24HR", "24prev"} : debug_out[n] # None => Ascending(Val(debug_out[n]))

\* a data file whose rows are in descending time order, merged with the fault
\* rows and filtered by the clusters
C15_Witness ==
    /\ pc = "done" /\ result = "True"
    /\ overlap_policy = "ALL" /\ exclude_policy = "ALL"
    /\ logs["24HR"] # None
    /\ Val(logs["24HR"]).rows = <<OffsetText(300), OffsetText(0)>>
    /\ debug_out["24HR"] # None
    /\ Len(Val(output_file)) = 4

(***************************************************************************)
(* Claims about convert_csv's columns (checked under SpecWide).            *)
(***************************************************************************)
\* k: the columns of the header except the first and the last
MeasurementColumns(headers) == IF Len(headers) >= 2 THEN 2..(Len(headers) - 1) ELSE {}

\* the data rows with at least as many fields as the header
FullRows == {i \in 1..Len(args.rows) : Len(args.rows[i]) >= Len(args.headers)}

\* name and unit of the two column names of the inputs
DecodedName(h) == IF h = <<"V", "(", "U", ")">> THEN <<"V">> ELSE h
DecodedUnit(h) == IF h = <<"V", "(", "U", ")">> THEN <<"U">> ELSE <<>>

\* the record a data row owes to a measurement column
RecordOf(i, c) ==
    [scet |-> Strftime(args.rows[i][Len(args.headers)].off), name |-> DecodedName(args.headers[c]),
     value |-> args.rows[i][c], unit |-> DecodedUnit(args.headers[c])]

\* C16 (as claimed): without time filter and fault file, convert_csv emits k
\* records for every data row with at least as many fields as the header and
\* none for a shorter row, so r rows of the header's width give r*k records,
\* each with the row's timestamp, the decoded name and unit and the value.
C16_RecordsPerRowTimesColumns ==
    pc = "convert_done" =>
        /\ output_file # None
        /\ Len(Val(output_file)) = Cardinality(FullRows) * Cardinality(MeasurementColumns(args.headers))
        /\ \A i \in FullRows : \A c \in MeasurementColumns(args.headers) :
               InSeq(RecordOf(i, c), Val(output_file))

(***************************************************************************)
(* Claims about the rows of the canonical output (checked under Spec and   *)
(* SpecGap).                                                               *)
(***************************************************************************)
\* the margin-expanded fault range, from the inputs
ExpandedLo == SetMin(FaultScanInstants) - SecondsOfText(margin)
ExpandedHi == SetMax(FaultScanInstants) + SecondsOfText(margin)

\* the output the ONLY_RECENT stage has written, before any exclusion filter
SelectSingleOutput ==
    /\ overlap_policy = "ONLY_RECENT"
    /\ output_file # None
    /\ pc = "select_exclude" \/ exclude_policy = "NONE"

\* the data rows of a file whose time field decodes to an instant of [lo, hi]
RowsWithin(name, lo, hi) ==
    {i \in 1..Len(Val(logs[name]).rows) :
        /\ "off" \in DOMAIN Val(logs[name]).rows[i]
        /\ lo <= Val(logs[name]).anchor + Val(logs[name]).rows[i].off
        /\ Val(logs[name]).anchor + Val(logs[name]).rows[i].off <= hi}

RecordOfRow(name, i) ==
    MeasurementTuple(Strftime(Val(logs[name]).anchor + Val(logs[name]).rows[i].off), <<name, i>>)

\* C17: the output of the ONLY_RECENT stage holds only rows (measurements and
\* fault events) with fault_min <= t <= fault_max for the margin-expanded fault
\* range, every row of the selected file inside that range (the bounds
\* included), and measurements of the selected file only.
C17_SelectSingleRestrictedToFaultRange ==
    SelectSingleOutput =>
        /\ \A k \in 1..Len(Val(output_file)) :
               /\ ExpandedLo <= InstantOf(Val(output_file)[k])
               /\ InstantOf(Val(output_file)[k]) <= ExpandedHi
        /\ \A i \in RowsWithin(overlapping_file, ExpandedLo, ExpandedHi) :
               InSeq(RecordOfRow(overlapping_file, i), Val(output_file))
        /\ MeasurementSources(Val(output_file)) \subseteq {overlapping_file}
        /\ Cardinality({k \in 1..Len(Val(output_file)) : Val(output_file)[k].name # "Fault"})
               = Cardinality(RowsWithin(overlapping_file, ExpandedLo, ExpandedHi))

\* the fault range is one instant; the selected file has a row exactly there,
\* which is kept, and a later row, which is dropped
C17_Witness ==
    /\ pc = "done" /\ result = "True"
    /\ overlap_policy = "ONLY_RECENT" /\ exclude_policy = "NONE"
    /\ margin = None
    /\ FaultScanInstants = {0}
    /\ Val(logs[overlapping_file]).rows = <<OffsetText(0), OffsetText(300)>>
    /\ InSeq(RecordOfRow(overlapping_file, 1), Val(output_file))
    /\ ~InSeq(RecordOfRow(overlapping_file, 2), Val(output_file))

RECURSIVE AcceptedFrom(_, _)
\* the data files the merge accepts, in priority order: those that meet the
\* fault range and whose segment lies within no earlier accepted segment
AcceptedFrom(i, acc) ==
    IF i > Len(data_files) THEN acc
    ELSE IF /\ MeetsRange(data_files[i], Val(fault_min), Val(fault_max))
            /\ ~\E m \in 1..Len(acc) : Within(SegmentOf(data_files[i]), SegmentOf(acc[m]))
    THEN AcceptedFrom(i + 1, Append(acc, data_files[i]))
    ELSE AcceptedFrom(i + 1, acc)

Accepted == AcceptedFrom(1, <<>>)

InSegment(name) == RowsWithin(name, SegmentOf(name)[1], SegmentOf(name)[2])

RECURSIVE SumInSegment(_)
SumInSegment(names) ==
    IF names = <<>> THEN 0 ELSE Cardinality(InSegment(Head(names))) + SumInSegment(Tail(names))

\* the rows of the fault log that denote an instant of the fault range
FaultEvents ==
    {i \in 1..Len(Val(logs["FaultLog"])) :
        /\ Val(logs["FaultLog"])[i].fmt \in {"ordinal", "combined"}
        /\ Val(fault_min) <= Val(logs["FaultLog"])[i].t
        /\ Val(logs["FaultLog"])[i].t <= Val(fault_max)}

\* the merge has written its output and no exclusion filter applied
MergeAllOutput ==
    pc = "done" /\ result = "True" /\ overlap_policy = "ALL" /\ exclude_policy = "NONE"

SingleFaultRows ==
    IF args.fault_file = None THEN {}
    ELSE {i \in 1..Len(Val(args.fault_file)) : Val(args.fault_file)[i].fmt = "ordinal"}

\* C19: end to end, a telemetry file with rows at the anchor and 5 seconds
\* after it and a fault file with one fault 2 seconds after the anchor give an
\* output of exactly 3 rows, sorted, the fault row between the two measurement
\* rows; in general the output holds one row per data row and per fault row,
\* in timestamp order.
C19_FaultRowBetweenMeasurements ==
    (pc = "single_done" /\ result = "True") =>
        /\ Len(Val(output_file)) = Len(args.input_file.rows) + Cardinality(SingleFaultRows)
        /\ Ascending(Val(output_file))
        /\ \A i \in SingleFaultRows :
               InSeq(FaultTuple(Strftime(Val(args.fault_file)[i].t), <<"FaultLog", i>>),
                     Val(output_file))
        /\ (args.input_file.rows = <<OffsetText(0), OffsetText(5)>>
               /\ args.fault_file = Some(<<OrdinalRow(2)>>))
           => Val(output_file) = <<MeasurementTuple(Strftime(0), <<"input", 1>>),
                                   FaultTuple(Strftime(2), <<"FaultLog", 1>>),
                                   MeasurementTuple(Strftime(5), <<"input", 2>>)>>

\* the scenario: rows at 0 s and 5 s, one fault at 2 s, three rows written
C19_Witness ==
    /\ pc = "single_done" /\ result = "True"
    /\ args.input_file.rows = <<OffsetText(0), OffsetText(5)>>
    /\ args.fault_file = Some(<<OrdinalRow(2)>>)
    /\ Len(Val(output_file)) = 3
    /\ Val(output_file)[2].name = "Fault"

(***************************************************************************)
(* Claims about dates written with '/' (checked under SpecSlash).          *)
(***************************************************************************)
\* the date and time fields of the fault row
SlashDate == args.fault_file[1].date
SlashClock == args.fault_file[1].clock

\* the instant the fault parser resolved the row to, None when it skipped it
Resolved == IF fault_data = <<>> THEN None ELSE Strptime(fault_data[1].scet)

\* year y, month m, day d is a date of the calendar, the year in four digits
OnCalendar(y, m, d) == y >= 1000 /\ y <= 9999 /\ m >= 1 /\ m <= 12 /\ d >= 1 /\ d <= DaysIn(m, y)

ClockValid == "h" \in DOMAIN SlashClock /\ SlashClock.h <= 23

\* C20: a date a/b/c is read as month/day/year when that is a date, else as
\* day/month/year when that is one, else as year/month/day, else the row is
\* skipped; a/b/yyyy with a <= 12 and b a day of month a is month a, day b;
\* and the range scanner resolves the row to the same instant as the parser.
C20_SlashDateMonthFirstThenDayFirst ==
    pc = "slash_done" =>
        /\ (ClockValid /\ OnCalendar(SlashDate[3], SlashDate[1], SlashDate[2])) =>
               Resolved = ReplaceTime(<<SlashDate[3], SlashDate[1], SlashDate[2]>>, SlashClock)
        /\ (ClockValid /\ ~OnCalendar(SlashDate[3], SlashDate[1], SlashDate[2])
                /\ OnCalendar(SlashDate[3], SlashDate[2], SlashDate[1])) =>
               Resolved = ReplaceTime(<<SlashDate[3], SlashDate[2], SlashDate[1]>>, SlashClock)
        /\ (ClockValid /\ ~OnCalendar(SlashDate[3], SlashDate[1], SlashDate[2])
                /\ ~OnCalendar(SlashDate[3], SlashDate[2], SlashDate[1])
                /\ OnCalendar(SlashDate[1], SlashDate[2], SlashDate[3])) =>
               Resolved = ReplaceTime(<<SlashDate[1], SlashDate[2], SlashDate[3]>>, SlashClock)
        /\ (~ClockValid \/ ( /\ ~OnCalendar(SlashDate[3], SlashDate[1], SlashDate[2])
                             /\ ~OnCalendar(SlashDate[3], SlashDate[2], SlashDate[1])
                             /\ ~OnCalendar(SlashDate[1], SlashDate[2], SlashDate[3]) )) =>
               Resolved = None
        /\ fault_min = Resolved /\ fault_max = Resolved

\* 2/1/2025 00:05:00, a date both readings accept, resolved by parser and
\* scanner to the first of February
C20_Witness ==
    /\ pc = "slash_done"
    /\ SlashDate = <<2, 1, 2025>>
    /\ SlashClock = ClockText(0, 5, 0)
    /\ Resolved = Some(86400 * 31 + 300)
    /\ fault_min = Some(86400 * 31 + 300)

(***************************************************************************)
(* Claims about parse_time_offset_to_scet (checked under SpecOffset).      *)
(***************************************************************************)
\* the duration of the first offset is at most that of the second
OffsetAtMost(a, b) ==
    LET sa == 3600 * a.h + 60 * a.m + a.sec
        sb == 3600 * b.h + 60 * b.m + b.sec
    IN  sa < sb \/ (sa = sb /\ FractionMicroseconds(a.frac) <= FractionMicroseconds(b.frac))

\* the first timestamp is not later than the second
NotLater(x, y) ==
    <<x.year, x.doy, x.h, x.m, x.sec>> = <<y.year, y.doy, y.h, y.m, y.sec>>
    \/ \E k \in 1..5 :
           LET xs == <<x.year, x.doy, x.h, x.m, x.sec>>
               ys == <<y.year, y.doy, y.h, y.m, y.sec>>
           IN  xs[k] < ys[k] /\ \A j \in 1..(k - 1) : xs[j] = ys[j]

\* a timestamp of the calendar: day 366 only in a leap year
OnClock(x) ==
    /\ x.doy >= 1 /\ x.doy <= (IF x.year % 4 = 0 THEN 366 ELSE 365)
    /\ x.h \in 0..23 /\ x.m \in 0..59 /\ x.sec \in 0..59

\* seconds from 2024-001T00:00:00, for the years 2024 to 2026
SecondsFrom2024(x) ==
    86400 * ((IF x.year = 2024 THEN 0 ELSE IF x.year = 2025 THEN 366 ELSE 731) + x.doy - 1)
    + 3600 * x.h + 60 * x.m + x.sec

\* C21: for a fixed anchor the result is monotonic in the offset; a fraction of
\* a second is dropped, never rounded up; the addition carries across minutes,
\* hours, days and years, and an offset that passes the end of the last day of
\* the year (365, or 366 in a leap year) gives day 1 of the next year.
C21_OffsetMonotonicAndCarries ==
    pc = "offset_done" =>
        /\ OffsetAtMost(args.first, args.second) => NotLater(Val(ret)[1], Val(ret)[2])
        /\ \A k \in 1..2 :
               LET o == IF k = 1 THEN args.first ELSE args.second
                   whole == 3600 * o.h + 60 * o.m + o.sec
                   left == 86400 - (3600 * args.base_date_str.h + 60 * args.base_date_str.m
                                    + args.base_date_str.sec)
               IN  /\ OnClock(Val(ret)[k])
                   /\ SecondsFrom2024(Val(ret)[k]) = SecondsFrom2024(args.base_date_str) + whole
                   /\ (args.base_date_str.doy = (IF args.base_date_str.year = 2024 THEN 366 ELSE 365)
                          /\ whole >= left /\ whole < left + 86400)
                      => (Val(ret)[k].year = args.base_date_str.year + 1 /\ Val(ret)[k].doy = 1)

\* from 23:00:00 of day 366 of 2024: 59 minutes 59.9999999 seconds stay in the
\* last second of the year, 60 minutes give day 1 of 2025
C21_Witness ==
    /\ pc = "offset_done"
    /\ args.base_date_str = OrdinalText(2024, 366, 23, 0, 0)
    /\ args.first = OffsetFields(0, 59, 59, Some(<<9, 9, 9, 9, 9, 9, 9>>))
    /\ args.second = OffsetFields(0, 60, 0, None)
    /\ Val(ret)[1] = OrdinalText(2024, 366, 23, 59, 59)
    /\ Val(ret)[2] = OrdinalText(2025, 1, 0, 0, 0)

(***************************************************************************)
(* Claims about the anchor of a telemetry file (checked under SpecAnchor). *)
(***************************************************************************)
\* the metadata line gives a date day/month/year and a time
AnchorGiven ==
    /\ args.metadata_line.fields >= 4
    /\ args.metadata_line.date \in {<<1, 1, 2025>>, <<31, 12, 2025>>}
    /\ args.metadata_line.time \in {Some(<<0, 0, 0>>), Some(<<12>>)}

\* the anchor the metadata line gives
GivenAnchor ==
    OrdinalText(2025, IF args.metadata_line.date = <<1, 1, 2025>> THEN 1 ELSE 365,
                IF args.metadata_line.time = Some(<<12>>) THEN 12 ELSE 0, 0, 0)

\* C22: when the date or the time of the metadata line is missing or malformed
\* the offsets are resolved against 2025-354T00:00:00, and convert_csv and the
\* range scanner use the same anchor for the same file, parsed or default.
C22_DefaultAnchorSharedByScannerAndTransformer ==
    pc = "anchor_done" =>
        /\ Val(output_file)[1].scet =
               parse_time_offset_fields(args.time_value,
                   IF AnchorGiven THEN GivenAnchor ELSE OrdinalText(2025, 354, 0, 0, 0))
        /\ Val(ret)[1] = Val(output_file)[1].scet
        /\ Val(ret)[2] = Val(output_file)[1].scet

\* a metadata line of three fields: the row at offset 00:05:00 is dated from
\* the default anchor by both
C22_Witness ==
    /\ pc = "anchor_done"
    /\ args.metadata_line.fields = 3
    /\ args.time_value = OffsetFields(0, 5, 0, None)
    /\ Val(output_file)[1].scet = OrdinalText(2025, 354, 0, 5, 0)
    /\ Val(ret)[1] = OrdinalText(2025, 354, 0, 5, 0)

(***************************************************************************)
(* Claims about extract_unit_from_column_name (checked under SpecUnit).    *)
(***************************************************************************)
\* C23: a column name name(unit), the name without "(", decodes to (name, unit)
\* and a name without parentheses to (name, ''); a non-empty unit joined to
\* the name as name + "(" + unit + ")" gives the column name back; the call
\* changes nothing but its result.
C23_ColumnNameDecodingInvertible ==
    pc = "unit_done" =>
        LET column_name == args.column_name
            name == Val(ret)[1]
            unit == Val(ret)[2]
            last == Len(column_name)
        IN  /\ \A k \in 1..last :
                   LET n == SubSeq(column_name, 1, k - 1)
                       u == SubSeq(column_name, k + 1, last - 1)
                   IN  (column_name[k] = "(" /\ column_name[last] = ")" /\ ~InSeq("(", n))
                           => (name = n /\ unit = u)
            /\ (~InSeq("(", column_name) /\ ~InSeq(")", column_name))
                   => (name = column_name /\ unit = <<>>)
            /\ unit # <<>> => name \o <<"(">> \o unit \o <<")">> = column_name
            /\ output_file = None /\ temp_files = {} /\ all_rows = <<>>

\* "((A)": the name is empty and the unit is "(A"
C23_Witness ==
    /\ pc = "unit_done"
    /\ args.column_name = <<"(", "(", "A", ")">>
    /\ Val(ret) = <<<<>>, <<"(", "A">>>>

(***************************************************************************)
(* Claims about the order of rows with equal timestamps.                   *)
(***************************************************************************)
\* the files the run has written: the canonical output and the outputs of
\* convert_csv on 24HR and 24prev alone
WrittenOutputs ==
    (IF output_file = None THEN {} ELSE {Val(output_file)})
    \cup {Val(debug_out[n]) : n \in {m \in {"24HR", "24prev"} : debug_out[m] # None}}

\* C24: in every output, of two rows with equal timestamps a fault row comes
\* before a measurement row, two measurement rows of one source come in the
\* order of their rows in the source, and two measurement rows of different
\* sources (MergeAll) come in the priority order of their sources.
C24_EqualTimestampsFaultsFirstThenSourceOrder ==
    \A out \in WrittenOutputs : \A j, k \in 1..Len(out) :
        (j < k /\ InstantOf(out[j]) = InstantOf(out[k])) =>
            /\ out[k].name = "Fault" => out[j].name = "Fault"
            /\ (out[j].name # "Fault" /\ out[k].name # "Fault") =>
                   IF out[j].value[1] = out[k].value[1]
                   THEN out[j].value[2] < out[k].value[2]
                   ELSE Priority(out[j].value[1]) < Priority(out[k].value[1])

\* a merge of 24HR (one row at 00:05:00) and 24prev (rows at 00:05:00 and
\* 00:00:00) with a fault at 00:05:00 listed first in the fault log: at
\* 00:05:00 the output has the fault, then the row of 24HR, then that of 24prev
C24_Witness ==
    /\ pc = "done" /\ result = "True" /\ overlap_policy = "ALL"
    /\ logs["FaultLog"] # None /\ logs["24HR"] # None /\ logs["24prev"] # None
    /\ Val(logs["FaultLog"]) = <<OrdinalRow(300), OrdinalRow(0)>>
    /\ Val(logs["24HR"]).rows = <<OffsetText(300)>>
    /\ Val(logs["24prev"]).rows = <<OffsetText(300), OffsetText(0)>>
    /\ \E p \in 1..(Len(Val(output_file)) - 2) :
           /\ Val(output_file)[p] = FaultTuple(Strftime(300), <<"FaultLog", 1>>)
           /\ Val(output_file)[p + 1] = RecordOfRow("24HR", 1)
           /\ Val(output_file)[p + 2] = RecordOfRow("24prev", 1)

\* the same for the columns of one row (checked under SpecWide): the records
\* of a row stand together in the output, in the order of the header's columns
C24_ColumnOrderKept ==
    (pc = "convert_done" /\ output_file # None) =>
        \A i \in 1..Len(args.rows) :
            ~RowSkipped(args.rows[i], args.headers) =>
                LET records == RowRecords(args.rows[i], args.headers,
                                   Val(parse_time_offset_to_scet(TimeValue(args.rows[i], args.headers), 0)))
                IN  \E p \in 0..(Len(Val(output_file)) - Len(records)) :
                        SubSeq(Val(output_file), p + 1, p + Len(records)) = records

(***************************************************************************)
(* Claims about the two readers of the fault log.                          *)
(***************************************************************************)
\* the rows of the fault log that parse_fault_data, without time filter, turns
\* into an event
ParsableFaultRows ==
    {i \in 1..Len(Val(logs["FaultLog"])) : FaultRowInstant(Val(logs["FaultLog"])[i]) # None}

\* C25: get_time_range_from_csv counts a row of the fault log exactly when
\* parse_fault_data emits an event for it, with the same instant; so the
\* scanned fault range is [earliest, latest] of the parsed events and, in a
\* run without margin, every parsable fault event is in the output and in
\* fault_data, from which the clusters are made.
C25_ScannerAgreesWithParser ==
    logs["FaultLog"] # None =>
        /\ \A i \in 1..Len(Val(logs["FaultLog"])) :
               ScanFaultRowInstant(Val(logs["FaultLog"])[i]) = FaultRowInstant(Val(logs["FaultLog"])[i])
        /\ get_time_range_from_csv(logs["FaultLog"], TRUE)
               = (IF ParsableFaultRows = {} THEN <<None, None>>
                  ELSE <<Some(SetMin({Val(FaultRowInstant(Val(logs["FaultLog"])[i])) : i \in ParsableFaultRows})),
                         Some(SetMax({Val(FaultRowInstant(Val(logs["FaultLog"])[i])) : i \in ParsableFaultRows}))>>)
        /\ (pc = "done" /\ result = "True" /\ margin = None) =>
               /\ Len(fault_data) = Cardinality(ParsableFaultRows)
               /\ \A i \in ParsableFaultRows :
                      InSeq(FaultTuple(Strftime(Val(FaultRowInstant(Val(logs["FaultLog"])[i]))),
                                       <<"FaultLog", i>>), Val(output_file))

(***************************************************************************)
(* Claims about the fault rows under ClusterOnly (checked under SpecDense). *)
(***************************************************************************)
\* C26: whatever margin parse_margin accepts and under either overlap policy,
\* a run with exclude_policy ALL removes no fault event: every fault row of the
\* row set the exclusion filter is given (the parsed fault events) is in the
\* output, as it is in the output of the run with exclude_policy NONE.
C26_ClusterOnlyKeepsFaultRows ==
    (pc = "done" /\ result = "True") =>
        \A k \in 1..Len(fault_data) : InSeq(fault_data[k], Val(output_file))

(***************************************************************************)
(* Claims relating the two overlap policies (checked under SpecLong).      *)
(***************************************************************************)
\* the scanned range of the first candidate contains the expanded fault range
FirstCandidateCovers ==
    LET r == get_time_range_from_csv(csv_files[overlapping_files[1]], FALSE)
    IN  Val(r[1]) <= Val(fault_min) /\ Val(fault_max) <= Val(r[2])

\* what ONLY_RECENT writes for the same inputs, margin and exclusion policy:
\* None when convert_csv raises
SelectSingleWrites(e) ==
    LET out == convert_csv(overlapping_files[1], Val(csv_files[overlapping_files[1]]),
                           FaultMinText, FaultMaxText, csv_files["FaultLog"])
        clusters == identify_fault_clusters(ParsedFaults)
    IN  IF out = None THEN None
        ELSE IF e = "ALL" /\ clusters # <<>>
        THEN Some(filter_data_by_clusters(Val(out), clusters, ExclusionMargin))
        ELSE out

\* C27: when only one data file overlaps the fault range, or the range of the
\* first overlapping file contains the whole expanded fault range, a run under
\* ALL accepts the first candidate only and writes, row for row, the output
\* ONLY_RECENT writes for the same inputs, margin and exclusion policy.
C27_MergeAllDegeneratesToSelectSingle ==
    (pc = "done" /\ result = "True" /\ overlap_policy = "ALL"
        /\ (Len(overlapping_files) = 1 \/ FirstCandidateCovers)) =>
            /\ Len(covered_ranges) = 1
            /\ output_file = SelectSingleWrites(exclude_policy)

====
